---- MODULE Spec2Model ----
(***************************************************************************)
(* Online Course Management System: the repository (DataService), the      *)
(* entity models (Course, Student) and the two managers (CourseManager,    *)
(* StudentManager).                                                        *)
(*                                                                         *)
(* Every asynchronous method is cut at its timer awaits (Utils.delay):     *)
(* the code that runs between two timers is one macrotask together with    *)
(* the promise continuations it triggers, and is one atomic action here.   *)
(* Callers are independent call sites; each has at most one call in        *)
(* flight, and calls of different callers interleave at the timers.        *)
(***************************************************************************)
EXTENDS Integers, Sequences, FiniteSets, TLC

(* ---------------------------- bounds ----------------------------------- *)
NumCallers == 2          \* independent call sites
MaxCourses == 3          \* course ids ever generated
MaxStudents == 3         \* student ids ever generated
MaxCalls == 3            \* calls made after start-up
MaxTime == 3             \* clock ticks, where the clock is tracked
MaxTests == 3            \* registerTest calls

Callers == 1..NumCallers
CourseIds == 1..MaxCourses
StudentIds == 1..MaxStudents

NULL == 0                \* JavaScript null / undefined / absent field

(* the clock counts ticks of half a cacheTimeout; Untimed stands for a clock
   that is not tracked, where an entry may or may not have expired *)
Untimed == -1
(* this.cacheTimeout = 5 * 60 * 1000, in ticks *)
cacheTimeout == 2

(* ---------------------------- inputs ----------------------------------- *)
EmailInputs == {"ann@x.org", "ANN@x.org", "bob@x.org"}
NameInputs == {"Ann", "A"}
TitleInputs == {"Algebra", "ALGEBRA", "Biology"}
(* progress values are counted in thousandths: Percent is the number 1 *)
Percent == 1000
ProgressInputs == {0, 40 * Percent, 150 * Percent}
LessonInputs == {{}, {"L1"}}

(* String.prototype.toLowerCase on the strings of the model *)
toLowerCase(s) ==
    CASE s = "ANN@x.org" -> "ann@x.org"
      [] s = "Algebra" -> "algebra"
      [] s = "ALGEBRA" -> "algebra"
      [] s = "Biology" -> "biology"
      [] s = "Advanced" -> "advanced"
      [] OTHER -> s

(* The raw objects handed to StudentManager.createStudent *)
StudentInputs ==
    { d \in [id : {NULL}, name : NameInputs, email : EmailInputs,
             courseId : CourseIds \cup {NULL}, progress : ProgressInputs,
             completedLessons : LessonInputs] :
        /\ (d.name = "A" \/ d.courseId = NULL => d.email = "bob@x.org" /\ d.progress = 0)
        /\ (d.email = "ann@x.org" => d.progress = 0)
        /\ (d.email = "ANN@x.org" => d.progress = 40 * Percent)
        /\ (d.email = "bob@x.org" => d.progress # 40 * Percent)
        /\ (d.completedLessons # {} <=> d.progress = 40 * Percent) }

(* The email values handed to StudentManager.updateStudent *)
EmailUpdates == {"ANN@x.org", "bob@x.org"}

(* The raw objects handed to CourseManager.createCourse (description,
   duration, instructor and difficulty are valid and play no part here) *)
CourseInputs == [id : {NULL}, title : TitleInputs, progress : {0}, enrollmentCount : {0}]

(* What localStorage holds under the storage key when the page is opened:
   nothing, the record a previous session saved, or a string that JSON.parse
   or the models' fromJSON reject *)
NoData == [courses |-> <<>>, students |-> <<>>, present |-> FALSE, corrupt |-> FALSE]

CorruptData == [courses |-> <<>>, students |-> <<>>, present |-> TRUE, corrupt |-> TRUE]

SeededData ==
    [present |-> TRUE, corrupt |-> FALSE,
     courses |-> << [id |-> 1, title |-> "Algebra", progress |-> 0, enrollmentCount |-> 1],
                    [id |-> 2, title |-> "Biology", progress |-> 0, enrollmentCount |-> 0] >>,
     students |-> << [id |-> 1, name |-> "Ann", email |-> "ann@x.org", courseId |-> 1,
                      progress |-> 40 * Percent, completedLessons |-> {"L1"}],
                     [id |-> 2, name |-> "Bob", email |-> "bob@x.org", courseId |-> NULL,
                      progress |-> 0, completedLessons |-> {}] >>]

StoredInputs == {NoData, CorruptData, SeededData}

(* ---------------------------- state ------------------------------------ *)
VARIABLES
    initialized,     \* DataService.initialized
    storage,         \* localStorage[DataService.storageKey]
    courses,         \* DataService.data.courses: sequence of Course references
    students,        \* DataService.data.students: sequence of Student references
    courseObj,       \* the Course objects ever constructed, by id
    studentObj,      \* the Student objects ever constructed, by id
    nextCourseId,    \* Utils.generateId for courses: ids are never reused
    nextStudentId,   \* Utils.generateId for students
    courseCache,     \* CourseManager.cache
    studentCache,    \* StudentManager.cache
    pc,              \* per caller: the await its call is suspended at
    call,            \* per caller: the method called and its arguments
    local,           \* per caller: the local variables `student` and `course`
    result,          \* per caller: outcome of its last completed call
    calls,           \* number of calls made after start-up
    now,             \* Date.now() in ticks since start-up, or Untimed
    observers,       \* CourseManager.observers
    notified,        \* history, per caller: the observer rounds of its call
    timers,          \* the pending Utils.delay timers in firing order, when time is tracked
    tests,           \* TestFramework.tests: the values of the Map, in insertion order
    testCategories,  \* TestFramework.testCategories: per category, its array of tests
    results,         \* TestFramework.results
    isRunning,       \* TestFramework.isRunning
    inProgress,      \* the test function invocations that have not settled
    log,             \* history: the invocations, their outcomes and the retry delays of the latest run
    acked,           \* history: what the completed manager calls have reported
    alt              \* history: the enroll/unenroll alternation under observation

vars == <<initialized, storage, courses, students, courseObj, studentObj, nextCourseId,
          nextStudentId, courseCache, studentCache, pc, call, local, result, calls,
          now, observers, notified, timers, tests, testCategories, results, isRunning,
          inProgress, log, acked, alt>>

dataVars == <<courses, students, courseObj, studentObj, nextCourseId, nextStudentId>>
cacheVars == <<courseCache, studentCache>>
envVars == <<now, observers, notified>>
testVars == <<tests, testCategories, results, isRunning, inProgress, log>>

NoObj == [id |-> NULL]
NoEntry == [present |-> FALSE]
NoCall == [op |-> "none"]
NoLocal == [student |-> NULL, course |-> NULL]
NoResult == [status |-> "none", error |-> "", value |-> NULL]
NoAcked == [createdCourses |-> {}, deletedCourses |-> {}, createdStudents |-> {},
            deletedStudents |-> {}, evicted |-> {}]
NoAlt == [active |-> FALSE]

(* ---------------------------- sequences -------------------------------- *)
Range(s) == { s[i] : i \in DOMAIN s }

(* Array.prototype.splice(index, 1) *)
splice(s, index) == [ i \in 1..(Len(s) - 1) |-> IF i < index THEN s[i] ELSE s[i + 1] ]

(* Array.prototype.findIndex on a sequence of ids; 0 when absent *)
findIndex(s, id) ==
    IF id \in Range(s) THEN CHOOSE i \in DOMAIN s : s[i] = id /\ \A j \in 1..(i - 1) : s[j] # id
    ELSE 0

(* An object spliced out of its collection is reachable only through the
   local variables of the calls in flight, which write to it and never read
   it again: it is dropped, and Held leaves such a write out *)
Unreachable(objs, id) == [objs EXCEPT ![id] = NoObj]

Held(objs, id, new) == IF objs[id] = NoObj THEN objs ELSE [objs EXCEPT ![id] = new]

(* ---------------------------- Utils ------------------------------------ *)
(* Utils.isValidEmail: /^[^\s@]+@[^\s@]+\.[^\s@]+$/ on the strings of the model *)
isValidEmail(email) == email \in {"ann@x.org", "ANN@x.org", "bob@x.org"}

(* String.prototype.trim on the strings of the model *)
trim(s) ==
    CASE s = "  " -> ""
      [] s = " Al " -> "Al"
      [] s = " Cy " -> "Cy"
      [] OTHER -> s

(* null, where the other values of the property are strings *)
Null == "null"

(* ---------------------------- Course model ----------------------------- *)
(* durations are counted in tenths of an hour *)
Hour == 10

(* parseInt(data.duration) on a number: its whole hours *)
parseInt(duration) == (duration \div Hour) * Hour

(* Course.isValidDifficulty *)
isValidDifficulty(difficulty) ==
    toLowerCase(difficulty) \in {"beginner", "intermediate", "advanced"}

(* multipliers[this.difficulty] || 1.0, in tenths *)
multipliers(difficulty) ==
    CASE difficulty = "beginner" -> 10
      [] difficulty = "intermediate" -> 13
      [] difficulty = "advanced" -> 16
      [] OTHER -> 10

(* Course.calculateEstimatedTime: Math.round of the product, in hours; the
   product is in hundredths of an hour and a half is rounded up *)
calculateEstimatedTime(c) == (c.duration * multipliers(c.difficulty) + 50) \div 100

(* Course constructor: validate, then id, title, progress, enrollmentCount;
   for data that carry them, duration, difficulty and the computed
   estimatedCompletionTime *)
NewCourse(id, data) ==
    LET core == [id |-> IF data.id # NULL THEN data.id ELSE id, title |-> data.title,
                 progress |-> data.progress, enrollmentCount |-> data.enrollmentCount]
        described == core @@ [duration |-> parseInt(data.duration),
                              difficulty |-> toLowerCase(data.difficulty)]
    IN IF "duration" \in DOMAIN data
       THEN described @@ [estimatedCompletionTime |-> calculateEstimatedTime(described)]
       ELSE core

(* Course.validate: the title checks and, for data that carry them, the
   duration and difficulty checks (the other fields are valid inputs) *)
CourseValidate(data) ==
    /\ data.title # "" /\ Len(data.title) <= 100
    /\ "duration" \in DOMAIN data =>
          /\ data.duration > 0 /\ data.duration <= 1000 * Hour
          /\ isValidDifficulty(data.difficulty)

(* variant: enrollmentCount = enrollmentCount++, which stores the old value *)
addEnrollment_postfix(c) == c

addEnrollment(c) == [c EXCEPT !.enrollmentCount = @ + 1]

(* variant: the count is decremented without the test *)
removeEnrollment_unchecked(c) == [c EXCEPT !.enrollmentCount = @ - 1]

removeEnrollment(c) ==
    IF c.enrollmentCount > 0 THEN [c EXCEPT !.enrollmentCount = @ - 1] ELSE c

(* Course.update(updates): only title, description, duration, instructor and
   difficulty are allowed; the callers modelled here pass enrollmentCount,
   which is filtered out, so only the validation of the merged data remains *)
CourseUpdateOk(c) == CourseValidate(c)

(* { ...this.toJSON(), ...updates } *)
merge(c, updates) == [key \in DOMAIN c |-> IF key \in DOMAIN updates THEN updates[key] ELSE c[key]]

allowedCourseUpdates == {"title", "description", "duration", "instructor", "difficulty"}

(* variant: every property of the update object is kept *)
filterKeys_all(updates, allowedUpdates) == updates

(* the forEach that copies the allowed properties into filteredUpdates *)
filterKeys(updates, allowedUpdates) ==
    [key \in DOMAIN updates \cap allowedUpdates |-> updates[key]]

(* Course.update(updates): the data that are validated *)
CourseUpdateData(c, updates) == merge(c, filterKeys(updates, allowedCourseUpdates))

(* Course.update(updates) past its validation: the allowed properties are
   assigned as given and estimatedCompletionTime is computed again *)
CourseUpdate(c, updates) ==
    LET updated == CourseUpdateData(c, updates)
    IN [updated EXCEPT !.estimatedCompletionTime = calculateEstimatedTime(updated)]

(* ---------------------------- Student model ---------------------------- *)
(* Student.validate *)
StudentValidate(data) ==
    /\ data.name # "" /\ trim(data.name) # "" /\ Len(data.name) >= 2 /\ Len(data.name) <= 100
    /\ data.email # "" /\ isValidEmail(data.email)
    /\ "phone" \in DOMAIN data => data.phone \in {Null, ""} \/ Len(data.phone) <= 20
    /\ ~(data.progress # 0 /\ (data.progress < 0 \/ data.progress > 100 * Percent))

(* Student.getInitials on the names of the model *)
getInitials(name) ==
    CASE name = "ann lee" -> "AL"
      [] name = "Ann" -> "A"
      [] name = "Bob" -> "B"
      [] name = "Cy" -> "C"

(* Student.getDisplayName on the names of the model *)
getDisplayName(name) == IF name = "ann lee" THEN "Ann Lee" ELSE name

(* Student constructor, after validate: id, name, email, courseId, progress,
   completedLessons; for data that carry them, phone, enrollmentDate,
   updatedAt and the computed initials and displayName *)
NewStudent(id, data) ==
    LET core == [id |-> IF data.id # NULL THEN data.id ELSE id, name |-> trim(data.name),
                 email |-> toLowerCase(data.email),
                 courseId |-> data.courseId, progress |-> data.progress,
                 completedLessons |-> data.completedLessons]
    IN IF "phone" \in DOMAIN data
       THEN core @@ [phone |-> IF data.phone \in {Null, ""} THEN Null ELSE trim(data.phone),
                     enrollmentDate |-> data.enrollmentDate,
                     updatedAt |-> data.updatedAt,
                     initials |-> getInitials(core.name),
                     displayName |-> getDisplayName(core.name)]
       ELSE core

enrollInCourse(s, courseId) ==
    [s EXCEPT !.courseId = courseId, !.progress = 0, !.completedLessons = {}]

unenrollFromCourse(s) ==
    [s EXCEPT !.courseId = NULL, !.progress = 0, !.completedLessons = {}]

(* variant: courseId !== undefined, which null satisfies *)
isEnrolled_undefined(s) == "courseId" \in DOMAIN s

isEnrolled(s) == s.courseId # NULL

(* Student.update(updates): name, email and phone are allowed; the merged
   data is validated, then email is stored lower-cased *)
StudentUpdateData(s, updates) ==
    IF "email" \in DOMAIN updates THEN [s EXCEPT !.email = updates.email] ELSE s

StudentUpdate(s, updates) ==
    IF "email" \in DOMAIN updates THEN [s EXCEPT !.email = toLowerCase(updates.email)] ELSE s

(* Student.update(updates) for any update object, given as its own
   properties in their order: the allowed ones are kept, the merged data is
   validated, then each is assigned in turn with value.trim(), which throws a
   TypeError on null and leaves the earlier assignments in place; updatedAt,
   initials and displayName are set at the end *)
allowedStudentUpdates == {"name", "email", "phone"}

filteredUpdates(updates, allowedUpdates) ==
    LET allowed(u) == u.key \in allowedUpdates
    IN SelectSeq(updates, allowed)

(* { ...this.toJSON(), ...filteredUpdates } *)
RECURSIVE spread(_, _)
spread(data, updates) ==
    IF updates = <<>> THEN data
    ELSE spread([data EXCEPT ![Head(updates).key] = Head(updates).value], Tail(updates))

RECURSIVE applyUpdates(_, _)
applyUpdates(s, updates) ==
    IF updates = <<>> THEN [student |-> s, error |-> ""]
    ELSE IF Head(updates).value = Null
    THEN [student |-> s, error |-> "Cannot read properties of null (reading 'trim')"]
    ELSE applyUpdates([s EXCEPT ![Head(updates).key] =
                                   IF Head(updates).key = "email"
                                   THEN trim(toLowerCase(Head(updates).value))
                                   ELSE trim(Head(updates).value)],
                      Tail(updates))

Student_update(s, updates, date) ==
    LET filtered == filteredUpdates(updates, allowedStudentUpdates)
        applied == applyUpdates(s, filtered)
    IN IF ~StudentValidate(spread(s, filtered))
       THEN [student |-> s, error |-> "Student validation failed"]
       ELSE IF applied.error # "" THEN applied
       ELSE [student |-> [applied.student EXCEPT
                             !.updatedAt = date,
                             !.initials = getInitials(applied.student.name),
                             !.displayName = getDisplayName(applied.student.name)],
             error |-> ""]

(* variant: the value is stored as given *)
round2_none(x) == x

(* Math.round(x * 100) / 100: the nearest hundredth, a half rounded up *)
round2(x) == ((x + 5) \div 10) * 10

(* the test in Course.updateProgress and Student.updateProgress *)
ProgressInRange(progress) == progress >= 0 /\ progress <= 100 * Percent

(* Student.updateProgress past its test *)
StudentUpdateProgress(s, progress) == [s EXCEPT !.progress = round2(progress)]

(* Course.updateProgress past its test *)
CourseUpdateProgress(c, progress) == [c EXCEPT !.progress = round2(progress)]

(* ---------------------------- ValidationService ------------------------ *)
(* validateStudent: name (trimmed length 2..100, letters), email, courseId *)
validateStudent(data) ==
    /\ data.name # "" /\ Len(data.name) >= 2 /\ Len(data.name) <= 100
    /\ data.email # "" /\ isValidEmail(data.email)
    /\ data.courseId # NULL

(* validateCourse: the title checks (length 3..100) and, for data that carry
   them, duration (1..1000) and difficulty *)
validateCourse(data) ==
    /\ data.title # "" /\ Len(data.title) >= 3 /\ Len(data.title) <= 100
    /\ "duration" \in DOMAIN data =>
          /\ data.duration >= 1 * Hour /\ data.duration <= 1000 * Hour
          /\ toLowerCase(data.difficulty) \in {"beginner", "intermediate", "advanced"}

(* the 'progress' field validator *)
validateProgress(progress) == progress >= 0 /\ progress <= 100 * Percent

(* ---------------------------- calls ------------------------------------ *)
BogusId == -1            \* an id no entity ever has

KnownCourseIds == 1..(nextCourseId - 1)
KnownStudentIds == 1..(nextStudentId - 1)

(* localStorage.setItem in saveData either succeeds or throws (quota) *)
SaveOutcomes == {TRUE, FALSE}

InFlight(p) == pc[p] \notin {"idle", "done"}

(* a completed call resumes its caller in the same macrotask *)
Ready == \A q \in Callers : pc[q] # "done"

CanCall(p) == pc[p] = "idle" /\ Ready /\ initialized /\ calls < MaxCalls /\ ~alt.active

Issue(p, c) == call' = [call EXCEPT ![p] = c] /\ calls' = calls + 1

(* ---------------------------- timers ----------------------------------- *)
(* APP_CONFIG.API_DELAY is 500 ms; durations are counted in twelfths of it *)
API_DELAY == 12

(* the duration of the Utils.delay a call is suspended in at each await *)
Delay(label) ==
    CASE label \in {"initialize_loadData", "ensureInitialized_loadData", "createCourse_delay", "deleteCourse_delay", "updateCourse_delay",
                    "createStudent_delay", "updateStudent_delay", "deleteStudent_delay",
                    "enrollStudent_updateStudent", "enrollStudent_updateCourse",
                    "unenrollStudent_updateCourse", "unenrollStudent_updateStudent",
                    "updateStudentProgress_updateStudent", "updateCourseProgress_update",
                    "DataService_updateStudent_delay", "DataService_updateCourse_delay"}
           -> API_DELAY
      [] label \in {"initialize_saveData", "ensureInitialized_saveData", "createCourse_save", "deleteCourse_save", "updateCourse_save",
                    "createStudent_save", "updateStudent_save", "deleteStudent_save",
                    "enrollStudent_saveStudent", "enrollStudent_saveCourse",
                    "unenrollStudent_saveCourse", "unenrollStudent_saveStudent",
                    "updateStudentProgress_save", "updateCourseProgress_save",
                    "DataService_update_save"}
           -> API_DELAY \div 2
      [] label \in {"getCourses_delay", "getStudents_delay", "simulateProgress_getCourses",
                    "simulateProgress_getStudents"}
           -> API_DELAY \div 3
      [] label \in {"getCourseById_delay", "updateCourse_getCourse",
                    "createStudent_getCourse", "updateStudent_getStudent",
                    "enrollStudent_getCourse", "enrollStudent_getStudent",
                    "unenrollStudent_getStudent", "unenrollStudent_getCourse",
                    "updateStudentProgress_getStudent", "updateCourseProgress_getCourse"}
           -> API_DELAY \div 4

(* time not tracked: the timers fire in any order *)
NoTimers == [timed |-> FALSE, queue |-> <<>>]

(* setTimeout(resolve, ms): timers fire by expiry and, when equal, in the
   order of their creation *)
setTimeout(queue, p, ms) ==
    LET sooner == Cardinality({ i \in 1..Len(queue) : queue[i].after <= ms })
    IN SubSeq(queue, 1, sooner) \o <<[caller |-> p, after |-> ms]>>
         \o SubSeq(queue, sooner + 1, Len(queue))

(* the first timer has fired: what it waited has passed for the others *)
expired(queue) ==
    [i \in 1..(Len(queue) - 1) |-> [queue[i + 1] EXCEPT !.after = @ - queue[1].after]]

(* the timers after ms have passed *)
RECURSIVE waited(_, _)
waited(queue, ms) ==
    IF queue = <<>> THEN <<>>
    ELSE <<[Head(queue) EXCEPT !.after = @ - ms]>> \o waited(Tail(queue), ms)

(* the timer the call of p waits for is the next to fire *)
Fires(p) == timers.timed => (timers.queue # <<>> /\ timers.queue[1].caller = p)

(* the call of p goes on to `label`; a call that was suspended has used up its timer *)
Schedule(p, label) ==
    timers' = IF ~timers.timed THEN timers
              ELSE LET rest == IF InFlight(p) THEN expired(timers.queue) ELSE timers.queue
                   IN [timers EXCEPT !.queue = IF label = "done" THEN rest
                                               ELSE setTimeout(rest, p, Delay(label))]

Goto(p, label) == pc' = [pc EXCEPT ![p] = label] /\ Schedule(p, label)

Complete(p, value) ==
    /\ pc' = [pc EXCEPT ![p] = "done"]
    /\ Schedule(p, "done")
    /\ result' = [result EXCEPT ![p] = [status |-> "ok", error |-> "", value |-> value]]

Fail(p, error) ==
    /\ pc' = [pc EXCEPT ![p] = "done"]
    /\ Schedule(p, "done")
    /\ result' = [result EXCEPT ![p] = [status |-> "error", error |-> error, value |-> NULL]]

At(p, label) == pc[p] = label /\ Ready /\ Fires(p)

(* the caller takes the outcome of its call *)
Return(p) ==
    /\ pc[p] = "done"
    /\ pc' = [pc EXCEPT ![p] = "idle"]
    /\ call' = [call EXCEPT ![p] = NoCall]
    /\ local' = [local EXCEPT ![p] = NoLocal]
    /\ result' = [result EXCEPT ![p] = NoResult]
    /\ notified' = [notified EXCEPT ![p] = <<>>]
    /\ alt' = IF alt.active
              THEN [alt EXCEPT !.ok = @ /\ result[p].status = "ok", !.last = call[p].op]
              ELSE alt
    /\ UNCHANGED <<testVars, now, observers, timers, acked, initialized, storage, calls, dataVars,
                   cacheVars>>

(* ---------------------------- observers -------------------------------- *)
(* an observer is an object with handler methods: a "listener" has a method
   for every event and returns from it, a "faulty" one has them all and throws
   from each, an "errors" one has the error handlers only and returns *)
ObserverKinds == {"listener", "faulty", "errors"}

ErrorEvents == {"courseError", "coursesError", "courseValidationError",
                "studentError", "studentsError", "studentValidationError"}

(* typeof observer[eventType] === 'function' *)
hasMethod(observer, eventType) == observer # "errors" \/ eventType \in ErrorEvents

(* the increasing sequence of the numbers in a set *)
RECURSIVE Ascending(_)
Ascending(S) ==
    IF S = {} THEN <<>>
    ELSE LET least == CHOOSE i \in S : \A j \in S : i <= j
         IN <<least>> \o Ascending(S \ {least})

(* the positions in this.observers of those with a handler for the event *)
Listening(eventType) ==
    Ascending({ i \in DOMAIN observers : hasMethod(observers[i], eventType) })

(* variant: no try/catch around the handler call, the first handler that
   throws ends the forEach and its exception leaves notifyObservers *)
notifyObservers_uncaught(eventType) ==
    LET all == Listening(eventType)
        thrower == { k \in DOMAIN all : observers[all[k]] = "faulty" }
        last == IF thrower = {} THEN Len(all) ELSE CHOOSE k \in thrower : \A j \in thrower : k <= j
    IN [k \in 1..last |-> [observer |-> all[k], event |-> eventType,
                            threw |-> observers[all[k]] = "faulty", caught |-> FALSE]]

(* notifyObservers(eventType, data): one round, the handler invocations in
   the order of this.observers; an exception from a handler is caught and
   logged to the console *)
notifyObservers(eventType) ==
    LET all == Listening(eventType)
    IN [k \in DOMAIN all |-> [observer |-> all[k], event |-> eventType,
                               threw |-> observers[all[k]] = "faulty",
                               caught |-> observers[all[k]] = "faulty"]]

(* an exception has left the round *)
Escapes(round) == \E k \in DOMAIN round : round[k].threw /\ ~round[k].caught

(* the rounds of consecutive notifications, up to one that throws *)
RECURSIVE Rounds(_)
Rounds(events) ==
    IF events = <<>> THEN <<>>
    ELSE LET round == notifyObservers(Head(events))
         IN IF Escapes(round) THEN <<round>> ELSE <<round>> \o Rounds(Tail(events))

Escaped(rounds) == rounds # <<>> /\ Escapes(rounds[Len(rounds)])

NonEmpty(rounds) == SelectSeq(rounds, LAMBDA round : round # <<>>)

ObserverError == "Error in observer"

Await(label) == [status |-> "await", label |-> label]
Returns(value) == [status |-> "ok", value |-> value]
Throws(error) == [status |-> "error", error |-> error]

(* the end of a step of a CourseManager method: inside its try block the
   notifications `tried` are made and the step ends as `outcome`; an exception,
   thrown by the step or by a notification, is taken by the enclosing catch
   blocks, innermost first, each of which notifies its event of `caught` and
   rethrows *)
Settle(p, tried, caught, outcome) ==
    LET inTry == Rounds(tried)
        failed == Escaped(inTry) \/ outcome.status = "error"
        inCatch == IF failed THEN Rounds(caught) ELSE <<>>
    IN /\ notified' = [notified EXCEPT ![p] = @ \o NonEmpty(inTry \o inCatch)]
       /\ IF Escaped(inTry) \/ Escaped(inCatch) THEN Fail(p, ObserverError)
          ELSE IF outcome.status = "error" THEN Fail(p, outcome.error)
          ELSE IF outcome.status = "await" THEN Goto(p, outcome.label) /\ UNCHANGED result
          ELSE Complete(p, outcome.value)

(* the error saveData throws when localStorage.setItem has thrown *)
saveError_validation == "Course validation failed"

saveError == "Failed to save data"

(* what saveData serializes: the collections with every object's toJSON *)
Snapshot ==
    [present |-> TRUE, corrupt |-> FALSE,
     courses |-> [i \in DOMAIN courses |-> courseObj[courses[i]]],
     students |-> [i \in DOMAIN students |-> studentObj[students[i]]]]

(* variant: nothing is written to localStorage *)
saveData_unwritten(saved) == storage' = storage

(* saveData's body: localStorage.setItem stores the snapshot or throws *)
saveData(saved) == storage' = IF saved THEN Snapshot ELSE storage

(* variant: the entries are kept *)
clearCache_kept(cache) == cache

(* Map.prototype.clear *)
clearCache(cache) == [k \in DOMAIN cache |-> NoEntry]

(* history: a manager call that created or deleted the entity `id` has
   returned normally; `manager` is noted when its cache held an entry then *)
Acknowledge(field, id, manager, cache) ==
    acked' = [acked EXCEPT ![field] = @ \cup {id},
                           !.evicted = IF \E k \in DOMAIN cache : cache[k].present
                                       THEN @ \cup {manager} ELSE @]

(* ---------------------------- DataService.initialize ------------------- *)
(* variant: the flag is not consulted *)
alreadyInitialized_ignored == FALSE

(* the test `if (this.initialized) return;` *)
alreadyInitialized == initialized

(* called at start-up, up to the delay in loadData; every other call is made
   after it has succeeded, so that ensureInitialized() in the methods below
   finds initialized set; a later initialize() returns at once *)
initialize(p) ==
    /\ pc[p] = "idle" /\ Ready
    /\ \A q \in Callers : call[q].op # "initialize"
    /\ initialized => calls < MaxCalls /\ ~alt.active
    /\ call' = [call EXCEPT ![p] = [op |-> "initialize"]]
    /\ calls' = IF initialized THEN calls + 1 ELSE calls
    /\ IF alreadyInitialized
       THEN Complete(p, NULL)
       ELSE Goto(p, "initialize_loadData") /\ UNCHANGED result
    /\ UNCHANGED <<testVars, envVars, acked, alt, initialized, storage, dataVars, cacheVars, local>>

(* loadData after its delay: with nothing stored, or with a record that
   cannot be parsed, it throws and initialize() goes on to saveData();
   otherwise the stored record is parsed and its courses and students are
   rebuilt with Course.fromJSON and Student.fromJSON *)
parseStored ==
    /\ courses' = [i \in DOMAIN storage.courses |-> storage.courses[i].id]
    /\ students' = [i \in DOMAIN storage.students |-> storage.students[i].id]
    /\ courseObj' = [id \in CourseIds |->
                       IF \E i \in DOMAIN storage.courses : storage.courses[i].id = id
                       THEN NewCourse(NULL, CHOOSE c \in Range(storage.courses) : c.id = id)
                       ELSE NoObj]
    /\ studentObj' = [id \in StudentIds |->
                        IF \E i \in DOMAIN storage.students : storage.students[i].id = id
                        THEN NewStudent(NULL, CHOOSE c \in Range(storage.students) : c.id = id)
                        ELSE NoObj]
    /\ nextCourseId' = Len(storage.courses) + 1
    /\ nextStudentId' = Len(storage.students) + 1

loadData(p) ==
    /\ At(p, "initialize_loadData")
    /\ IF ~storage.present \/ storage.corrupt
       THEN /\ Goto(p, "initialize_saveData")
            /\ UNCHANGED <<initialized, dataVars, result>>
       ELSE /\ parseStored
            /\ initialized' = TRUE
            /\ Complete(p, NULL)
    /\ UNCHANGED <<testVars, envVars, acked, alt, storage, calls, cacheVars, call, local>>

initialize_saved(p) ==
    /\ At(p, "initialize_saveData")
    /\ \E saved \in SaveOutcomes :
         /\ saveData(saved)
         /\ IF saved
            THEN initialized' = TRUE /\ Complete(p, NULL)
            ELSE initialized' = initialized /\ Fail(p, saveError)
    /\ UNCHANGED <<testVars, envVars, acked, alt, calls, dataVars, cacheVars, call, local>>

(* a CourseManager call made at any time: `c` is the call and `label` the
   await of its first repository method after ensureInitialized(), which
   returns at once when `initialized` is set and otherwise awaits
   initialize(), whatever initialize() calls are already in progress *)
ensureInitialized(p, c, label) ==
    /\ pc[p] = "idle" /\ Ready /\ calls < MaxCalls
    /\ Issue(p, c @@ [resume |-> label])
    /\ IF initialized
       THEN Settle(p, <<>>, <<"courseError">>, Await(label))
       ELSE Settle(p, <<>>, <<"courseError">>, Await("ensureInitialized_loadData"))
    /\ UNCHANGED <<testVars, now, observers, acked, alt, initialized, storage, dataVars, cacheVars,
                   local>>

(* loadData after its delay, within such a call: the stored record replaces
   this.data and the call goes on to its repository method; with nothing
   stored, initialize() goes on to saveData() *)
ensureInitialized_loadData(p) ==
    /\ At(p, "ensureInitialized_loadData")
    /\ IF ~storage.present \/ storage.corrupt
       THEN /\ Settle(p, <<>>, <<"courseError">>, Await("ensureInitialized_saveData"))
            /\ UNCHANGED <<initialized, dataVars>>
       ELSE /\ parseStored
            /\ initialized' = TRUE
            /\ Settle(p, <<>>, <<"courseError">>, Await(call[p].resume))
    /\ UNCHANGED <<testVars, now, observers, acked, alt, storage, calls, cacheVars, call, local>>

(* saveData's body in initialize()'s catch block, within such a call *)
ensureInitialized_saved(p) ==
    /\ At(p, "ensureInitialized_saveData")
    /\ \E saved \in SaveOutcomes :
         /\ saveData(saved)
         /\ IF saved
            THEN /\ initialized' = TRUE
                 /\ Settle(p, <<>>, <<"courseError">>, Await(call[p].resume))
            ELSE /\ initialized' = initialized
                 /\ Settle(p, <<>>, <<"courseError">>, Throws(saveError))
    /\ UNCHANGED <<testVars, now, observers, acked, alt, calls, dataVars, cacheVars, call, local>>

(* time passes while no timer is due: the next call is made `ms` later *)
elapse(ms) ==
    /\ timers.timed /\ Ready
    /\ timers.queue # <<>> /\ ms < timers.queue[1].after
    /\ calls < MaxCalls
    /\ timers' = [timers EXCEPT !.queue = waited(@, ms)]
    /\ UNCHANGED <<testVars, envVars, acked, alt, initialized, storage, calls, dataVars, cacheVars,
                   pc, call, local, result>>

(* ---------------------------- CourseManager ---------------------------- *)
CourseKey == "courses_{}"
StudentKey == "students_{}"

CreatesInFlight(op) == Cardinality({ q \in Callers : call[q].op = op /\ InFlight(q) })

(* CourseManager.createCourse up to the delay in DataService.createCourse *)
createCourse(p, data) ==
    /\ CanCall(p)
    /\ nextCourseId + CreatesInFlight("createCourse") <= MaxCourses
    /\ Issue(p, [op |-> "createCourse", data |-> data])
    /\ IF validateCourse(data)
       THEN Settle(p, <<"courseCreating">>, <<"courseError">>, Await("createCourse_delay"))
       ELSE Settle(p, <<"courseValidationError">>, <<"courseError">>,
                   Throws("Course validation failed"))
    /\ UNCHANGED <<testVars, now, observers, acked, alt, initialized, storage, dataVars, cacheVars, local>>

(* variant: the find compares the titles as they are written *)
existingCourse_exact(title) == { c \in Range(courses) : courseObj[c].title = title }

(* the duplicate-title find in DataService.createCourse *)
existingCourse(title) ==
    { c \in Range(courses) : toLowerCase(courseObj[c].title) = toLowerCase(title) }

(* DataService.createCourse from the duplicate check to saveData's delay *)
DataService_createCourse(p) ==
    /\ At(p, "createCourse_delay")
    /\ LET data == call[p].data
       IN IF existingCourse(data.title) # {}
          THEN Settle(p, <<>>, <<"courseError">>, Throws("A course with this title already exists"))
               /\ UNCHANGED <<dataVars, local>>
          ELSE IF ~CourseValidate(data)
          THEN Settle(p, <<>>, <<"courseError">>, Throws("Course validation failed"))
               /\ UNCHANGED <<dataVars, local>>
          ELSE /\ courseObj' = [courseObj EXCEPT ![nextCourseId] = NewCourse(nextCourseId, data)]
               /\ courses' = Append(courses, nextCourseId)
               /\ nextCourseId' = nextCourseId + 1
               /\ local' = [local EXCEPT ![p].course = nextCourseId]
               /\ Settle(p, <<>>, <<"courseError">>, Await("createCourse_save"))
               /\ UNCHANGED <<students, studentObj, nextStudentId>>
    /\ UNCHANGED <<testVars, now, observers, acked, alt, initialized, storage, calls, cacheVars, call>>

(* saveData's body, then the rest of CourseManager.createCourse *)
createCourse_saved(p) ==
    /\ At(p, "createCourse_save")
    /\ \E saved \in SaveOutcomes :
         /\ saveData(saved)
         /\ IF saved
            THEN /\ courseCache' = clearCache(courseCache)
                 /\ Settle(p, <<"courseCreated">>, <<"courseError">>, Returns(local[p].course))
                 /\ Acknowledge("createdCourses", local[p].course, "courses", courseCache)
            ELSE /\ courseCache' = courseCache
                 /\ Settle(p, <<>>, <<"courseError">>, Throws(saveError))
                 /\ UNCHANGED acked
    /\ UNCHANGED <<testVars, now, observers, alt, initialized, calls, dataVars, studentCache, call, local>>

(* CourseManager.deleteCourse up to the delay in DataService.deleteCourse *)
deleteCourse(p, id) ==
    /\ CanCall(p)
    /\ id \in KnownCourseIds
    /\ Issue(p, [op |-> "deleteCourse", id |-> id])
    /\ Settle(p, <<"courseDeleting">>, <<"courseError">>, Await("deleteCourse_delay"))
    /\ UNCHANGED <<testVars, now, observers, acked, alt, initialized, storage, dataVars, cacheVars, local>>

(* variant: the filter counts only students who have made progress *)
enrolledStudents_started(id) ==
    { s \in Range(students) : studentObj[s].courseId = id /\ studentObj[s].progress > 0 }

(* the students filter in DataService.deleteCourse *)
enrolledStudents(id) == { s \in Range(students) : studentObj[s].courseId = id }

(* DataService.deleteCourse from findIndex to saveData's delay *)
DataService_deleteCourse(p) ==
    /\ At(p, "deleteCourse_delay")
    /\ LET id == call[p].id
           index == findIndex(courses, id)
       IN IF index = 0
          THEN Settle(p, <<>>, <<"courseError">>, Throws("Course not found"))
               /\ UNCHANGED <<courses, courseObj>>
          ELSE IF enrolledStudents(id) # {}
          THEN Settle(p, <<>>, <<"courseError">>,
                      Throws("Cannot delete course with enrolled students"))
               /\ UNCHANGED <<courses, courseObj>>
          ELSE /\ courses' = splice(courses, index)
               /\ courseObj' = Unreachable(courseObj, id)
               /\ Settle(p, <<>>, <<"courseError">>, Await("deleteCourse_save"))
    /\ UNCHANGED <<testVars, now, observers, acked, alt, initialized, storage, calls, students, studentObj, nextCourseId,
                   nextStudentId, cacheVars, call, local>>

deleteCourse_saved(p) ==
    /\ At(p, "deleteCourse_save")
    /\ \E saved \in SaveOutcomes :
         /\ saveData(saved)
         /\ IF saved
            THEN /\ courseCache' = clearCache(courseCache)
                 /\ Settle(p, <<"courseDeleted">>, <<"courseError">>, Returns(call[p].id))
                 /\ Acknowledge("deletedCourses", call[p].id, "courses", courseCache)
            ELSE /\ courseCache' = courseCache
                 /\ Settle(p, <<>>, <<"courseError">>, Throws(saveError))
                 /\ UNCHANGED acked
    /\ UNCHANGED <<testVars, now, observers, alt, initialized, calls, dataVars, studentCache, call, local>>

(* variant: an entry is still served when it is exactly cacheTimeout old *)
Unexpired_inclusive(timestamp) == now - timestamp <= cacheTimeout

(* Date.now() - cachedData.timestamp < this.cacheTimeout *)
Unexpired(timestamp) == now - timestamp < cacheTimeout

(* the outcomes of the test `cache.has(key) && unexpired`: with the clock not
   tracked, a present entry may or may not be younger than cacheTimeout *)
Servable(cache, key) ==
    IF ~cache[key].present THEN {FALSE}
    ELSE IF now = Untimed THEN BOOLEAN
    ELSE {Unexpired(cache[key].timestamp)}

(* cache.set(cacheKey, { data, timestamp: Date.now() }) *)
Entry(data) == [present |-> TRUE, data |-> data, timestamp |-> now]

(* CourseManager.getCourses({}, useCache): the cache check; on a miss, up to
   the delay in DataService.getCourses *)
getCourses(p, useCache) ==
    /\ CanCall(p)
    /\ Issue(p, [op |-> "getCourses", useCache |-> useCache])
    /\ \E fresh \in Servable(courseCache, CourseKey) :
         IF useCache /\ fresh
         THEN Complete(p, courseCache[CourseKey].data) /\ UNCHANGED notified
         ELSE Settle(p, <<"coursesLoading">>, <<"coursesError">>, Await("getCourses_delay"))
    /\ UNCHANGED <<testVars, now, observers, acked, alt, initialized, storage, dataVars, cacheVars, local>>

(* DataService.getCourses copies the collection; the manager caches the copy *)
DataService_getCourses(p) ==
    /\ At(p, "getCourses_delay")
    /\ courseCache' = [courseCache EXCEPT ![CourseKey] = Entry(courses)]
    /\ Settle(p, <<"coursesLoaded">>, <<"coursesError">>, Returns(courses))
    /\ UNCHANGED <<testVars, now, observers, acked, alt, initialized, storage, calls, dataVars, studentCache, call, local>>

(* CourseManager.getCourseById up to the delay in DataService.getCourseById *)
getCourseById(p, id) ==
    /\ CanCall(p)
    /\ Issue(p, [op |-> "getCourseById", id |-> id])
    /\ Settle(p, <<>>, <<"courseError">>, Await("getCourseById_delay"))
    /\ UNCHANGED <<testVars, now, observers, acked, alt, initialized, storage, dataVars, cacheVars, local>>

(* DataService.getCourseById: the find, or null *)
DataService_getCourseById(p) ==
    /\ At(p, "getCourseById_delay")
    /\ Settle(p, <<>>, <<"courseError">>,
              Returns(IF call[p].id \in Range(courses) THEN call[p].id ELSE NULL))
    /\ UNCHANGED <<testVars, now, observers, acked, alt, initialized, storage, calls, dataVars,
                   cacheVars, call, local>>

(* CourseManager.updateCourse up to the delay in getCourseById *)
updateCourse(p, id, updates) ==
    /\ CanCall(p)
    /\ Issue(p, [op |-> "updateCourse", id |-> id, updates |-> updates])
    /\ Settle(p, <<>>, <<"courseError">>, Await("updateCourse_getCourse"))
    /\ UNCHANGED <<testVars, now, observers, acked, alt, initialized, storage, dataVars, cacheVars, local>>

(* getCourseById's result and the validation of the merged data, up to the
   delay in DataService.updateCourse *)
updateCourse_gotCourse(p) ==
    /\ At(p, "updateCourse_getCourse")
    /\ IF call[p].id \notin Range(courses)
       THEN Settle(p, <<>>, <<"courseError">>, Throws("Course not found"))
       ELSE IF ~validateCourse(merge(courseObj[call[p].id], call[p].updates))
       THEN Settle(p, <<"courseValidationError">>, <<"courseError">>,
                   Throws("Course validation failed"))
       ELSE Settle(p, <<"courseUpdating">>, <<"courseError">>, Await("updateCourse_delay"))
    /\ UNCHANGED <<testVars, now, observers, acked, alt, initialized, storage, calls, dataVars,
                   cacheVars, call, local>>

(* DataService.updateCourse from the find to saveData's delay *)
updateCourse_update(p) ==
    /\ At(p, "updateCourse_delay")
    /\ LET id == call[p].id
       IN IF id \notin Range(courses)
          THEN Settle(p, <<>>, <<"courseError">>, Throws("Course not found"))
               /\ UNCHANGED courseObj
          ELSE IF ~CourseValidate(CourseUpdateData(courseObj[id], call[p].updates))
          THEN Settle(p, <<>>, <<"courseError">>, Throws("Course validation failed"))
               /\ UNCHANGED courseObj
          ELSE /\ courseObj' = [courseObj EXCEPT ![id] = CourseUpdate(@, call[p].updates)]
               /\ Settle(p, <<>>, <<"courseError">>, Await("updateCourse_save"))
    /\ UNCHANGED <<testVars, now, observers, acked, alt, initialized, storage, calls, courses, students,
                   studentObj, nextCourseId, nextStudentId, cacheVars, call, local>>

(* saveData's body, then the rest of CourseManager.updateCourse *)
updateCourse_saved(p) ==
    /\ At(p, "updateCourse_save")
    /\ \E saved \in SaveOutcomes :
         /\ saveData(saved)
         /\ IF saved
            THEN /\ courseCache' = clearCache(courseCache)
                 /\ Settle(p, <<"courseUpdated">>, <<"courseError">>, Returns(call[p].id))
            ELSE /\ courseCache' = courseCache
                 /\ Settle(p, <<>>, <<"courseError">>, Throws(saveError))
    /\ UNCHANGED <<testVars, now, observers, acked, alt, initialized, calls, dataVars, studentCache,
                   call, local>>

(* RandomIncreases: values of Utils.randomBetween(5, 25) *)
RandomIncreases == {5 * Percent, 25 * Percent}

(* the arguments of the updateCourseProgress call in progress: the caller's,
   or those simulateProgress passes for the course its loop is at *)
progressCall(p) ==
    IF call[p].op = "simulateProgress"
    THEN [id |-> local[p].course, progress |-> local[p].progress]
    ELSE [id |-> call[p].id, progress |-> call[p].progress]

(* the catch blocks around a step of updateCourseProgress *)
progressCatch(p) ==
    IF call[p].op = "simulateProgress" THEN <<"courseError", "courseError">>
    ELSE <<"courseError">>

(* CourseManager.updateCourseProgress up to the delay in getCourseById *)
updateCourseProgress(p, id, progress) ==
    /\ CanCall(p)
    /\ id \in KnownCourseIds
    /\ Issue(p, [op |-> "updateCourseProgress", id |-> id, progress |-> progress])
    /\ IF validateProgress(progress)
       THEN Settle(p, <<>>, <<"courseError">>, Await("updateCourseProgress_getCourse"))
       ELSE Settle(p, <<>>, <<"courseError">>,
                   Throws("Progress must be a number between 0 and 100"))
    /\ UNCHANGED <<testVars, now, observers, acked, alt, initialized, storage, dataVars, cacheVars, local>>

(* getCourseById's result, course.updateProgress, up to the delay in
   DataService.updateCourse *)
updateCourseProgress_gotCourse(p) ==
    /\ At(p, "updateCourseProgress_getCourse")
    /\ LET id == progressCall(p).id
           progress == progressCall(p).progress
       IN IF id \notin Range(courses)
          THEN Settle(p, <<>>, progressCatch(p), Throws("Course not found"))
               /\ UNCHANGED courseObj
          ELSE IF ~ProgressInRange(progress)
          THEN Settle(p, <<>>, progressCatch(p),
                      Throws("Progress must be a number between 0 and 100"))
               /\ UNCHANGED courseObj
          ELSE /\ courseObj' = [courseObj EXCEPT ![id] = CourseUpdateProgress(@, progress)]
               /\ Settle(p, <<>>, progressCatch(p), Await("updateCourseProgress_update"))
    /\ UNCHANGED <<testVars, now, observers, acked, alt, initialized, storage, calls, courses, students,
                   studentObj, nextCourseId, nextStudentId, cacheVars, call, local>>

(* DataService.updateCourse(id, {progress}) from find to saveData's delay:
   Course.update filters `progress` out and validates the merged data *)
updateCourseProgress_update(p) ==
    /\ At(p, "updateCourseProgress_update")
    /\ LET id == progressCall(p).id
       IN IF id \notin Range(courses)
          THEN Settle(p, <<>>, progressCatch(p), Throws("Course not found"))
          ELSE IF ~CourseUpdateOk(courseObj[id])
          THEN Settle(p, <<>>, progressCatch(p), Throws("Course validation failed"))
          ELSE Settle(p, <<>>, progressCatch(p), Await("updateCourseProgress_save"))
    /\ UNCHANGED <<testVars, now, observers, acked, alt, initialized, storage, calls, dataVars, cacheVars,
                   call, local>>

(* simulateProgress's loop from the course at the head of `pending`, up to
   the delay in getCourseById of its updateCourseProgress call; with no
   course left, the end of simulateProgress *)
iterate(p, pending, updated, tried) ==
    IF pending = <<>>
    THEN /\ local' = [local EXCEPT ![p] = [student |-> NULL, course |-> NULL, progress |-> 0,
                                            pending |-> <<>>, updated |-> updated]]
         /\ Settle(p, tried \o <<"progressSimulated">>, <<"courseError">>, Returns(updated))
    ELSE \E randomIncrease \in RandomIncreases :
           LET course == Head(pending)
               old == IF courseObj[course] = NoObj THEN 0 ELSE courseObj[course].progress
               newProgress == IF old + randomIncrease > 100 * Percent THEN 100 * Percent
                              ELSE old + randomIncrease
           IN /\ local' = [local EXCEPT ![p] = [student |-> NULL, course |-> course,
                                                 progress |-> newProgress,
                                                 pending |-> Tail(pending),
                                                 updated |-> updated]]
              /\ IF validateProgress(newProgress)
                 THEN Settle(p, tried, <<"courseError", "courseError">>,
                             Await("updateCourseProgress_getCourse"))
                 ELSE Settle(p, tried, <<"courseError", "courseError">>,
                             Throws("Progress must be a number between 0 and 100"))

(* saveData's body in updateCourse, then the rest of updateCourseProgress;
   within simulateProgress, on to course.updateProgress and the next course *)
updateCourseProgress_saved(p) ==
    /\ At(p, "updateCourseProgress_save")
    /\ \E saved \in SaveOutcomes :
         /\ saveData(saved)
         /\ IF ~saved
            THEN /\ Settle(p, <<>>, progressCatch(p), Throws(saveError))
                 /\ UNCHANGED <<courseCache, courseObj, local>>
            ELSE /\ courseCache' = clearCache(courseCache)
                 /\ IF call[p].op = "simulateProgress"
                    THEN /\ courseObj' = Held(courseObj, local[p].course,
                                              CourseUpdateProgress(courseObj[local[p].course],
                                                                   local[p].progress))
                         /\ iterate(p, local[p].pending, Append(local[p].updated, local[p].course),
                                    <<"courseProgressUpdated">>)
                    ELSE /\ Settle(p, <<"courseProgressUpdated">>, <<"courseError">>,
                                   Returns(call[p].id))
                         /\ UNCHANGED <<courseObj, local>>
    /\ UNCHANGED <<testVars, now, observers, acked, alt, initialized, calls, courses, students, studentObj,
                   nextCourseId, nextStudentId, studentCache, call>>

(* CourseManager.simulateProgress up to the delay in DataService.getCourses *)
simulateProgress(p) ==
    /\ CanCall(p)
    /\ Issue(p, [op |-> "simulateProgress"])
    /\ Settle(p, <<"progressSimulating", "coursesLoading">>, <<"coursesError", "courseError">>,
              Await("simulateProgress_getCourses"))
    /\ UNCHANGED <<testVars, now, observers, acked, alt, initialized, storage, dataVars, cacheVars, local>>

(* the rest of getCourses({}, false), then the loop up to its first await *)
simulateProgress_gotCourses(p) ==
    /\ At(p, "simulateProgress_getCourses")
    /\ courseCache' = [courseCache EXCEPT ![CourseKey] = Entry(courses)]
    /\ iterate(p, courses, <<>>, <<"coursesLoaded">>)
    /\ UNCHANGED <<testVars, now, observers, acked, alt, initialized, storage, calls, dataVars, studentCache,
                   call>>

(* course.updateProgress(progress), called on a course object directly *)
Course_updateProgress(p, id, progress) ==
    /\ CanCall(p)
    /\ id \in Range(courses)
    /\ Issue(p, [op |-> "Course.updateProgress", id |-> id, progress |-> progress])
    /\ IF ProgressInRange(progress)
       THEN /\ courseObj' = [courseObj EXCEPT ![id] = CourseUpdateProgress(@, progress)]
            /\ Complete(p, id)
       ELSE /\ Fail(p, "Progress must be a number between 0 and 100")
            /\ UNCHANGED courseObj
    /\ UNCHANGED <<testVars, envVars, acked, alt, initialized, storage, courses, students, studentObj,
                   nextCourseId, nextStudentId, cacheVars, local>>

(* student.updateProgress(progress), called on a student object directly *)
Student_updateProgress(p, id, progress) ==
    /\ CanCall(p)
    /\ id \in Range(students)
    /\ Issue(p, [op |-> "Student.updateProgress", id |-> id, progress |-> progress])
    /\ IF ProgressInRange(progress)
       THEN /\ studentObj' = [studentObj EXCEPT ![id] = StudentUpdateProgress(@, progress)]
            /\ Complete(p, id)
       ELSE /\ Fail(p, "Progress must be a number between 0 and 100")
            /\ UNCHANGED studentObj
    /\ UNCHANGED <<testVars, envVars, acked, alt, initialized, storage, courses, students, courseObj,
                   nextCourseId, nextStudentId, cacheVars, local>>

(* ---------------------------- DataService bodies ----------------------- *)
(* DataService.updateStudent(id, updates) from find to saveData's delay *)
DataService_updateStudent(p, id, updates, label, caught) ==
    IF id \notin Range(students)
    THEN Settle(p, <<>>, caught, Throws("Student not found")) /\ UNCHANGED studentObj
    ELSE IF ~StudentValidate(StudentUpdateData(studentObj[id], updates))
    THEN Settle(p, <<>>, caught, Throws("Student validation failed")) /\ UNCHANGED studentObj
    ELSE /\ studentObj' = [studentObj EXCEPT ![id] = StudentUpdate(@, updates)]
         /\ Settle(p, <<>>, caught, Await(label))

(* DataService.updateCourse(id, updates) from find to saveData's delay, for
   updates that Course.update filters out *)
DataService_updateCourse(p, id, label, caught) ==
    IF id \notin Range(courses)
    THEN Settle(p, <<>>, caught, Throws("Course not found"))
    ELSE IF ~CourseUpdateOk(courseObj[id])
    THEN Settle(p, <<>>, caught, Throws("Course validation failed"))
    ELSE Settle(p, <<>>, caught, Await(label))

NoUpdates == [enrollmentDate |-> NULL]

(* ---------------------------- DataService, called directly ------------- *)
(* new Date(): dates are counted in calls made, 0 being any date before the
   page was opened *)
Today == calls

(* DataService.updateStudent(id, updates) up to its delay; `before` notes the
   student as it was when the call was made *)
Repository_updateStudent(p, id, updates) ==
    /\ CanCall(p)
    /\ id \in KnownStudentIds
    /\ Issue(p, [op |-> "DataService.updateStudent", id |-> id, updates |-> updates,
                 before |-> studentObj[id]])
    /\ Goto(p, "DataService_updateStudent_delay")
    /\ UNCHANGED <<testVars, envVars, acked, alt, initialized, storage, dataVars, cacheVars, local,
                   result>>

(* find and student.update(updates), up to saveData's delay *)
Repository_updateStudent_update(p) ==
    /\ At(p, "DataService_updateStudent_delay")
    /\ LET id == call[p].id
           updated == Student_update(studentObj[id], call[p].updates, Today)
       IN IF id \notin Range(students)
          THEN Fail(p, "Student not found") /\ UNCHANGED studentObj
          ELSE /\ studentObj' = [studentObj EXCEPT ![id] = updated.student]
               /\ IF updated.error # ""
                  THEN Fail(p, updated.error)
                  ELSE Goto(p, "DataService_update_save") /\ UNCHANGED result
    /\ UNCHANGED <<testVars, envVars, acked, alt, initialized, storage, calls, courses, students,
                   courseObj, nextCourseId, nextStudentId, cacheVars, call, local>>

(* saveData's body, then the return of the updated entity *)
Repository_update_saved(p) ==
    /\ At(p, "DataService_update_save")
    /\ \E saved \in SaveOutcomes :
         /\ saveData(saved)
         /\ IF saved THEN Complete(p, call[p].id) ELSE Fail(p, saveError)
    /\ UNCHANGED <<testVars, envVars, acked, alt, initialized, calls, dataVars, cacheVars, call,
                   local>>

(* DataService.updateCourse(id, updates) up to its delay; `before` notes the
   course as it was when the call was made *)
Repository_updateCourse(p, id, updates) ==
    /\ CanCall(p)
    /\ id \in KnownCourseIds
    /\ Issue(p, [op |-> "DataService.updateCourse", id |-> id, updates |-> updates,
                 before |-> courseObj[id]])
    /\ Goto(p, "DataService_updateCourse_delay")
    /\ UNCHANGED <<testVars, envVars, acked, alt, initialized, storage, dataVars, cacheVars, local,
                   result>>

(* find and course.update(updates), up to saveData's delay *)
Repository_updateCourse_update(p) ==
    /\ At(p, "DataService_updateCourse_delay")
    /\ LET id == call[p].id
       IN IF id \notin Range(courses)
          THEN Fail(p, "Course not found") /\ UNCHANGED courseObj
          ELSE IF ~CourseValidate(CourseUpdateData(courseObj[id], call[p].updates))
          THEN Fail(p, "Course validation failed") /\ UNCHANGED courseObj
          ELSE /\ courseObj' = [courseObj EXCEPT ![id] = CourseUpdate(@, call[p].updates)]
               /\ Goto(p, "DataService_update_save")
               /\ UNCHANGED result
    /\ UNCHANGED <<testVars, envVars, acked, alt, initialized, storage, calls, courses, students,
                   studentObj, nextCourseId, nextStudentId, cacheVars, call, local>>

(* ---------------------------- StudentManager --------------------------- *)
(* StudentManager.createStudent up to the delay in getCourseById *)
createStudent(p, data) ==
    /\ CanCall(p)
    /\ data.courseId \in KnownCourseIds \cup {NULL}
    /\ nextStudentId + CreatesInFlight("createStudent") <= MaxStudents
    /\ Issue(p, [op |-> "createStudent", data |-> data])
    /\ IF validateStudent(data)
       THEN Settle(p, <<>>, <<"studentError">>, Await("createStudent_getCourse"))
       ELSE Settle(p, <<"studentValidationError">>, <<"studentError">>, Throws("Student validation failed"))
    /\ UNCHANGED <<testVars, now, observers, acked, alt, initialized, storage, dataVars, cacheVars, local>>

(* getCourseById's result, up to the delay in DataService.createStudent *)
createStudent_gotCourse(p) ==
    /\ At(p, "createStudent_getCourse")
    /\ IF call[p].data.courseId \in Range(courses)
       THEN Settle(p, <<"studentCreating">>, <<"studentError">>, Await("createStudent_delay"))
       ELSE Settle(p, <<>>, <<"studentError">>, Throws("Selected course does not exist"))
    /\ UNCHANGED <<testVars, now, observers, acked, alt, initialized, storage, calls, dataVars, cacheVars, call, local>>

(* variant: the find compares the emails as they are written *)
existingStudent_exact(email) == { s \in Range(students) : studentObj[s].email = email }

(* the duplicate-email find in DataService.createStudent *)
existingStudent(email) ==
    { s \in Range(students) : toLowerCase(studentObj[s].email) = toLowerCase(email) }

(* DataService.createStudent from the duplicate check to saveData's delay *)
DataService_createStudent(p) ==
    /\ At(p, "createStudent_delay")
    /\ LET data == call[p].data
           counted == IF data.courseId # NULL
                      THEN [courseObj EXCEPT ![data.courseId] = addEnrollment(@)]
                      ELSE courseObj
       IN IF existingStudent(data.email) # {}
          THEN Settle(p, <<>>, <<"studentError">>, Throws("A student with this email already exists"))
               /\ UNCHANGED <<dataVars, local>>
          ELSE IF data.courseId # NULL /\ data.courseId \notin Range(courses)
          THEN Settle(p, <<>>, <<"studentError">>, Throws("Selected course does not exist"))
               /\ UNCHANGED <<dataVars, local>>
          ELSE IF ~StudentValidate(data)
          THEN /\ courseObj' = counted
               /\ Settle(p, <<>>, <<"studentError">>, Throws("Student validation failed"))
               /\ UNCHANGED <<courses, students, studentObj, nextCourseId, nextStudentId, local>>
          ELSE /\ courseObj' = counted
               /\ studentObj' = [studentObj EXCEPT ![nextStudentId] = NewStudent(nextStudentId, data)]
               /\ students' = Append(students, nextStudentId)
               /\ nextStudentId' = nextStudentId + 1
               /\ local' = [local EXCEPT ![p].student = nextStudentId]
               /\ Settle(p, <<>>, <<"studentError">>, Await("createStudent_save"))
               /\ UNCHANGED <<courses, nextCourseId>>
    /\ UNCHANGED <<testVars, now, observers, acked, alt, initialized, storage, calls, cacheVars, call>>

createStudent_saved(p) ==
    /\ At(p, "createStudent_save")
    /\ \E saved \in SaveOutcomes :
         /\ saveData(saved)
         /\ IF saved
            THEN /\ studentCache' = clearCache(studentCache)
                 /\ Settle(p, <<"studentCreated">>, <<"studentError">>, Returns(local[p].student))
                 /\ Acknowledge("createdStudents", local[p].student, "students", studentCache)
            ELSE studentCache' = studentCache /\ Settle(p, <<>>, <<"studentError">>, Throws(saveError)) /\ UNCHANGED acked
    /\ UNCHANGED <<testVars, now, observers, alt, initialized, calls, dataVars, courseCache, call, local>>

(* StudentManager.updateStudent(id, {email}) up to the delay in getStudentById *)
updateStudent(p, id, email) ==
    /\ CanCall(p)
    /\ id \in KnownStudentIds
    /\ Issue(p, [op |-> "updateStudent", id |-> id, updates |-> [email |-> email]])
    /\ Settle(p, <<>>, <<"studentError">>, Await("updateStudent_getStudent"))
    /\ UNCHANGED <<testVars, now, observers, acked, alt, initialized, storage, dataVars, cacheVars, local>>

(* getStudentById's result, the validation of the merged data with the dummy
   courseId, up to the delay in DataService.updateStudent *)
updateStudent_gotStudent(p) ==
    /\ At(p, "updateStudent_getStudent")
    /\ LET id == call[p].id
       IN IF id \notin Range(students)
          THEN Settle(p, <<>>, <<"studentError">>, Throws("Student not found"))
          ELSE IF ~validateStudent([StudentUpdateData(studentObj[id], call[p].updates)
                                      EXCEPT !.courseId = BogusId])
          THEN Settle(p, <<"studentValidationError">>, <<"studentError">>, Throws("Student validation failed"))
          ELSE Settle(p, <<"studentUpdating">>, <<"studentError">>, Await("updateStudent_delay"))
    /\ UNCHANGED <<testVars, now, observers, acked, alt, initialized, storage, calls, dataVars, cacheVars, call, local>>

updateStudent_update(p) ==
    /\ At(p, "updateStudent_delay")
    /\ DataService_updateStudent(p, call[p].id, call[p].updates, "updateStudent_save", <<"studentError">>)
    /\ UNCHANGED <<testVars, now, observers, acked, alt, initialized, storage, calls, courses, students, courseObj, nextCourseId, nextStudentId,
                   cacheVars, call, local>>

updateStudent_saved(p) ==
    /\ At(p, "updateStudent_save")
    /\ \E saved \in SaveOutcomes :
         /\ saveData(saved)
         /\ IF saved
            THEN studentCache' = clearCache(studentCache) /\ Settle(p, <<"studentUpdated">>, <<"studentError">>, Returns(call[p].id))
            ELSE studentCache' = studentCache /\ Settle(p, <<>>, <<"studentError">>, Throws(saveError))
    /\ UNCHANGED <<testVars, now, observers, acked, alt, initialized, calls, dataVars, courseCache, call, local>>

(* StudentManager.deleteStudent up to the delay in DataService.deleteStudent *)
deleteStudent(p, id) ==
    /\ CanCall(p)
    /\ id \in KnownStudentIds
    /\ Issue(p, [op |-> "deleteStudent", id |-> id])
    /\ Settle(p, <<"studentDeleting">>, <<"studentError">>, Await("deleteStudent_delay"))
    /\ UNCHANGED <<testVars, now, observers, acked, alt, initialized, storage, dataVars, cacheVars, local>>

(* DataService.deleteStudent from findIndex to saveData's delay *)
DataService_deleteStudent(p) ==
    /\ At(p, "deleteStudent_delay")
    /\ LET id == call[p].id
           index == findIndex(students, id)
       IN IF index = 0
          THEN Settle(p, <<>>, <<"studentError">>, Throws("Student not found")) /\ UNCHANGED <<students, courseObj, studentObj>>
          ELSE LET courseId == studentObj[id].courseId
               IN /\ courseObj' = IF courseId # NULL /\ courseId \in Range(courses)
                                  THEN [courseObj EXCEPT ![courseId] = removeEnrollment(@)]
                                  ELSE courseObj
                  /\ students' = splice(students, index)
                  /\ studentObj' = Unreachable(studentObj, id)
                  /\ Settle(p, <<>>, <<"studentError">>, Await("deleteStudent_save"))
    /\ UNCHANGED <<testVars, now, observers, acked, alt, initialized, storage, calls, courses, nextCourseId, nextStudentId,
                   cacheVars, call, local>>

deleteStudent_saved(p) ==
    /\ At(p, "deleteStudent_save")
    /\ \E saved \in SaveOutcomes :
         /\ saveData(saved)
         /\ IF saved
            THEN /\ studentCache' = clearCache(studentCache)
                 /\ Settle(p, <<"studentDeleted">>, <<"studentError">>, Returns(call[p].id))
                 /\ Acknowledge("deletedStudents", call[p].id, "students", studentCache)
            ELSE studentCache' = studentCache /\ Settle(p, <<>>, <<"studentError">>, Throws(saveError)) /\ UNCHANGED acked
    /\ UNCHANGED <<testVars, now, observers, alt, initialized, calls, dataVars, courseCache, call, local>>

(* StudentManager.enrollStudent up to the delay in getCourseById *)
enrollStudent(p, studentId, courseId) ==
    /\ CanCall(p)
    /\ studentId \in KnownStudentIds \cup {BogusId}
    /\ courseId \in KnownCourseIds \cup {BogusId}
    /\ Issue(p, [op |-> "enrollStudent", studentId |-> studentId, courseId |-> courseId])
    /\ Settle(p, <<>>, <<"studentError">>, Await("enrollStudent_getCourse"))
    /\ UNCHANGED <<testVars, now, observers, acked, alt, initialized, storage, dataVars, cacheVars, local>>

(* getCourseById's result, up to the delay in getStudentById *)
enrollStudent_gotCourse(p) ==
    /\ At(p, "enrollStudent_getCourse")
    /\ IF call[p].courseId \notin Range(courses)
       THEN Settle(p, <<>>, <<"studentError">>, Throws("Course not found")) /\ UNCHANGED local
       ELSE /\ local' = [local EXCEPT ![p].course = call[p].courseId]
            /\ Settle(p, <<>>, <<"studentError">>, Await("enrollStudent_getStudent"))
    /\ UNCHANGED <<testVars, now, observers, acked, alt, initialized, storage, calls, dataVars, cacheVars, call>>

(* getStudentById's result, the checks, student.enrollInCourse, up to the
   delay in DataService.updateStudent *)
enrollStudent_gotStudent(p) ==
    /\ At(p, "enrollStudent_getStudent")
    /\ LET studentId == call[p].studentId
       IN IF studentId \notin Range(students)
          THEN Settle(p, <<>>, <<"studentError">>, Throws("Student not found")) /\ UNCHANGED <<studentObj, local>>
          ELSE IF isEnrolled(studentObj[studentId])
          THEN Settle(p, <<>>, <<"studentError">>, Throws("Student is already enrolled in a course. Please unenroll first."))
               /\ UNCHANGED <<studentObj, local>>
          ELSE /\ studentObj' = [studentObj EXCEPT
                                   ![studentId] = enrollInCourse(@, call[p].courseId)]
               /\ local' = [local EXCEPT ![p].student = studentId]
               /\ Settle(p, <<"studentEnrolling">>, <<"studentError">>, Await("enrollStudent_updateStudent"))
    /\ UNCHANGED <<testVars, now, observers, acked, alt, initialized, storage, calls, courses, students, courseObj, nextCourseId, nextStudentId,
                   cacheVars, call>>

enrollStudent_updateStudent(p) ==
    /\ At(p, "enrollStudent_updateStudent")
    /\ DataService_updateStudent(p, call[p].studentId, NoUpdates, "enrollStudent_saveStudent", <<"studentError">>)
    /\ UNCHANGED <<testVars, now, observers, acked, alt, initialized, storage, calls, courses, students, courseObj, nextCourseId, nextStudentId,
                   cacheVars, call, local>>

(* saveData's body in updateStudent, then course.addEnrollment, up to the
   delay in DataService.updateCourse *)
enrollStudent_savedStudent(p) ==
    /\ At(p, "enrollStudent_saveStudent")
    /\ \E saved \in SaveOutcomes :
         /\ saveData(saved)
         /\ IF saved
            THEN /\ courseObj' = Held(courseObj, local[p].course,
                                      addEnrollment(courseObj[local[p].course]))
                 /\ Settle(p, <<>>, <<"studentError">>, Await("enrollStudent_updateCourse"))
            ELSE Settle(p, <<>>, <<"studentError">>, Throws(saveError)) /\ UNCHANGED courseObj
    /\ UNCHANGED <<testVars, now, observers, acked, alt, initialized, calls, courses, students, studentObj, nextCourseId, nextStudentId,
                   cacheVars, call, local>>

enrollStudent_updateCourse(p) ==
    /\ At(p, "enrollStudent_updateCourse")
    /\ DataService_updateCourse(p, call[p].courseId, "enrollStudent_saveCourse", <<"studentError">>)
    /\ UNCHANGED <<testVars, now, observers, acked, alt, initialized, storage, calls, dataVars, cacheVars, call, local>>

enrollStudent_savedCourse(p) ==
    /\ At(p, "enrollStudent_saveCourse")
    /\ \E saved \in SaveOutcomes :
         /\ saveData(saved)
         /\ IF saved
            THEN studentCache' = clearCache(studentCache) /\ Settle(p, <<"studentEnrolled">>, <<"studentError">>, Returns(call[p].studentId))
            ELSE studentCache' = studentCache /\ Settle(p, <<>>, <<"studentError">>, Throws(saveError))
    /\ UNCHANGED <<testVars, now, observers, acked, alt, initialized, calls, dataVars, courseCache, call, local>>

(* StudentManager.unenrollStudent up to the delay in getStudentById *)
unenrollStudent(p, studentId) ==
    /\ CanCall(p)
    /\ studentId \in KnownStudentIds
    /\ Issue(p, [op |-> "unenrollStudent", studentId |-> studentId])
    /\ Settle(p, <<>>, <<"studentError">>, Await("unenrollStudent_getStudent"))
    /\ UNCHANGED <<testVars, now, observers, acked, alt, initialized, storage, dataVars, cacheVars, local>>

(* getStudentById's result and the checks, up to the delay in getCourseById *)
unenrollStudent_gotStudent(p) ==
    /\ At(p, "unenrollStudent_getStudent")
    /\ LET studentId == call[p].studentId
       IN IF studentId \notin Range(students)
          THEN Settle(p, <<>>, <<"studentError">>, Throws("Student not found")) /\ UNCHANGED local
          ELSE IF ~isEnrolled(studentObj[studentId])
          THEN Settle(p, <<>>, <<"studentError">>, Throws("Student is not enrolled in any course")) /\ UNCHANGED local
          ELSE /\ local' = [local EXCEPT ![p] = [student |-> studentId,
                                                 course |-> studentObj[studentId].courseId]]
               /\ Settle(p, <<"studentUnenrolling">>, <<"studentError">>, Await("unenrollStudent_getCourse"))
    /\ UNCHANGED <<testVars, now, observers, acked, alt, initialized, storage, calls, dataVars, cacheVars, call>>

(* getCourseById's result: course.removeEnrollment up to the delay in
   DataService.updateCourse, or, with no such course, student.unenrollFromCourse
   up to the delay in DataService.updateStudent *)
unenrollStudent_gotCourse(p) ==
    /\ At(p, "unenrollStudent_getCourse")
    /\ IF local[p].course \in Range(courses)
       THEN /\ courseObj' = [courseObj EXCEPT ![local[p].course] = removeEnrollment(@)]
            /\ Settle(p, <<>>, <<"studentError">>, Await("unenrollStudent_updateCourse"))
            /\ UNCHANGED studentObj
       ELSE /\ studentObj' = Held(studentObj, local[p].student,
                                    unenrollFromCourse(studentObj[local[p].student]))
            /\ Settle(p, <<>>, <<"studentError">>, Await("unenrollStudent_updateStudent"))
            /\ UNCHANGED courseObj
    /\ UNCHANGED <<testVars, now, observers, acked, alt, initialized, storage, calls, courses, students, nextCourseId, nextStudentId,
                   cacheVars, call, local>>

unenrollStudent_updateCourse(p) ==
    /\ At(p, "unenrollStudent_updateCourse")
    /\ DataService_updateCourse(p, local[p].course, "unenrollStudent_saveCourse", <<"studentError">>)
    /\ UNCHANGED <<testVars, now, observers, acked, alt, initialized, storage, calls, dataVars, cacheVars, call, local>>

(* saveData's body in updateCourse, then student.unenrollFromCourse, up to
   the delay in DataService.updateStudent *)
unenrollStudent_savedCourse(p) ==
    /\ At(p, "unenrollStudent_saveCourse")
    /\ \E saved \in SaveOutcomes :
         /\ saveData(saved)
         /\ IF saved
            THEN /\ studentObj' = Held(studentObj, local[p].student,
                                        unenrollFromCourse(studentObj[local[p].student]))
                 /\ Settle(p, <<>>, <<"studentError">>, Await("unenrollStudent_updateStudent"))
            ELSE Settle(p, <<>>, <<"studentError">>, Throws(saveError)) /\ UNCHANGED studentObj
    /\ UNCHANGED <<testVars, now, observers, acked, alt, initialized, calls, courses, students, courseObj, nextCourseId, nextStudentId,
                   cacheVars, call, local>>

unenrollStudent_updateStudent(p) ==
    /\ At(p, "unenrollStudent_updateStudent")
    /\ DataService_updateStudent(p, call[p].studentId, NoUpdates, "unenrollStudent_saveStudent", <<"studentError">>)
    /\ UNCHANGED <<testVars, now, observers, acked, alt, initialized, storage, calls, courses, students, courseObj, nextCourseId, nextStudentId,
                   cacheVars, call, local>>

unenrollStudent_savedStudent(p) ==
    /\ At(p, "unenrollStudent_saveStudent")
    /\ \E saved \in SaveOutcomes :
         /\ saveData(saved)
         /\ IF saved
            THEN studentCache' = clearCache(studentCache) /\ Settle(p, <<"studentUnenrolled">>, <<"studentError">>, Returns(call[p].studentId))
            ELSE studentCache' = studentCache /\ Settle(p, <<>>, <<"studentError">>, Throws(saveError))
    /\ UNCHANGED <<testVars, now, observers, acked, alt, initialized, calls, dataVars, courseCache, call, local>>

(* values of Utils.randomBetween(3, 20) *)
StudentIncreases == {3 * Percent, 20 * Percent}

(* the catch blocks around a step of updateStudentProgress, innermost first:
   its own and, when simulateProgress has called it, simulateProgress's *)
studentProgressCatch(p) ==
    IF call[p].op = "StudentManager.simulateProgress"
    THEN <<"studentError", "studentError">>
    ELSE <<"studentError">>

(* the arguments of the updateStudentProgress call in progress: the caller's,
   or those StudentManager.simulateProgress passes for the student its loop
   is at *)
studentProgressCall(p) ==
    IF call[p].op = "StudentManager.simulateProgress"
    THEN [id |-> local[p].student, progress |-> local[p].progress]
    ELSE [id |-> call[p].id, progress |-> call[p].progress]

(* StudentManager.updateStudentProgress up to the delay in getStudentById *)
updateStudentProgress(p, id, progress) ==
    /\ CanCall(p)
    /\ id \in KnownStudentIds
    /\ Issue(p, [op |-> "updateStudentProgress", id |-> id, progress |-> progress])
    /\ IF validateProgress(progress)
       THEN Settle(p, <<>>, <<"studentError">>, Await("updateStudentProgress_getStudent"))
       ELSE Settle(p, <<>>, <<"studentError">>, Throws("Progress must be a number between 0 and 100"))
    /\ UNCHANGED <<testVars, now, observers, acked, alt, initialized, storage, dataVars, cacheVars, local>>

(* getStudentById's result, student.updateProgress, up to the delay in
   DataService.updateStudent *)
updateStudentProgress_gotStudent(p) ==
    /\ At(p, "updateStudentProgress_getStudent")
    /\ LET id == studentProgressCall(p).id
       IN IF id \notin Range(students)
          THEN Settle(p, <<>>, studentProgressCatch(p), Throws("Student not found")) /\ UNCHANGED studentObj
          ELSE IF ~ProgressInRange(studentProgressCall(p).progress)
          THEN Settle(p, <<>>, studentProgressCatch(p), Throws("Progress must be a number between 0 and 100")) /\ UNCHANGED studentObj
          ELSE /\ studentObj' = [studentObj EXCEPT
                                   ![id] = StudentUpdateProgress(@, studentProgressCall(p).progress)]
               /\ Settle(p, <<>>, studentProgressCatch(p), Await("updateStudentProgress_updateStudent"))
    /\ UNCHANGED <<testVars, now, observers, acked, alt, initialized, storage, calls, courses, students, courseObj, nextCourseId, nextStudentId,
                   cacheVars, call, local>>

updateStudentProgress_updateStudent(p) ==
    /\ At(p, "updateStudentProgress_updateStudent")
    /\ DataService_updateStudent(p, studentProgressCall(p).id, NoUpdates, "updateStudentProgress_save", studentProgressCatch(p))
    /\ UNCHANGED <<testVars, now, observers, acked, alt, initialized, storage, calls, courses, students, courseObj, nextCourseId, nextStudentId,
                   cacheVars, call, local>>

(* StudentManager.simulateProgress's loop from the student at the head of
   `pending`, up to the delay in getStudentById of its updateStudentProgress
   call; with no student left, the end of simulateProgress *)
iterateStudents(p, pending, updated, tried) ==
    IF pending = <<>>
    THEN /\ local' = [local EXCEPT ![p] = [student |-> NULL, course |-> NULL, progress |-> 0,
                                            pending |-> <<>>, updated |-> updated]]
         /\ Settle(p, tried \o <<"progressSimulated">>, <<"studentError">>, Returns(updated))
    ELSE \E randomIncrease \in StudentIncreases :
           LET student == Head(pending)
               old == IF studentObj[student] = NoObj THEN 0 ELSE studentObj[student].progress
               newProgress == IF old + randomIncrease > 100 * Percent THEN 100 * Percent
                              ELSE old + randomIncrease
           IN /\ local' = [local EXCEPT ![p] = [student |-> student, course |-> NULL,
                                                 progress |-> newProgress,
                                                 pending |-> Tail(pending),
                                                 updated |-> updated]]
              /\ IF validateProgress(newProgress)
                 THEN Settle(p, tried, <<"studentError", "studentError">>,
                             Await("updateStudentProgress_getStudent"))
                 ELSE Settle(p, tried, <<"studentError", "studentError">>,
                             Throws("Progress must be a number between 0 and 100"))

(* saveData's body in updateStudent, then the rest of updateStudentProgress;
   within simulateProgress, on to student.updateProgress and the next
   student *)
updateStudentProgress_saved(p) ==
    /\ At(p, "updateStudentProgress_save")
    /\ \E saved \in SaveOutcomes :
         /\ saveData(saved)
         /\ IF ~saved
            THEN /\ Settle(p, <<>>, studentProgressCatch(p), Throws(saveError))
                 /\ UNCHANGED <<studentCache, studentObj, local>>
            ELSE /\ studentCache' = clearCache(studentCache)
                 /\ IF call[p].op = "StudentManager.simulateProgress"
                    THEN /\ studentObj' = Held(studentObj, local[p].student,
                                               StudentUpdateProgress(studentObj[local[p].student],
                                                                     local[p].progress))
                         /\ iterateStudents(p, local[p].pending,
                                            Append(local[p].updated, local[p].student),
                                            <<"studentProgressUpdated">>)
                    ELSE /\ Settle(p, <<"studentProgressUpdated">>, studentProgressCatch(p), Returns(call[p].id))
                         /\ UNCHANGED <<studentObj, local>>
    /\ UNCHANGED <<testVars, now, observers, acked, alt, initialized, calls, courses, students, courseObj,
                   nextCourseId, nextStudentId, courseCache, call>>

(* StudentManager.simulateProgress up to the delay in DataService.getStudents *)
StudentManager_simulateProgress(p) ==
    /\ CanCall(p)
    /\ Issue(p, [op |-> "StudentManager.simulateProgress"])
    /\ Settle(p, <<"progressSimulating", "studentsLoading">>, <<"studentsError", "studentError">>, Await("simulateProgress_getStudents"))
    /\ UNCHANGED <<testVars, now, observers, acked, alt, initialized, storage, dataVars, cacheVars, local>>

(* query options: `filter` is the course c of the function
   student => student.courseId === c, or NULL for none; `sortBy` is a field
   name, or NoSort for none *)
NoSort == ""
NoOptions == [filter |-> NULL, sortBy |-> NoSort]
QueryOptions == [filter : {NULL} \cup CourseIds, sortBy : {NoSort, "progress"}]

(* JSON.stringify(options): a property whose value is a function is left out *)
stringify(options) ==
    IF options.sortBy = NoSort THEN "{}" ELSE "{\"sortBy\":\"" \o options.sortBy \o "\"}"

(* `students_${JSON.stringify(options)}` *)
cacheKey(prefix, options) == prefix \o stringify(options)

StudentKeys == { cacheKey("students_", options) : options \in QueryOptions }

(* students.sort(Student.compare by progress): ascending and stable *)
RECURSIVE sortByProgress(_)
sortByProgress(s) ==
    IF s = <<>> THEN <<>>
    ELSE LET first == CHOOSE i \in DOMAIN s : \A j \in DOMAIN s :
                        \/ studentObj[s[i]].progress < studentObj[s[j]].progress
                        \/ studentObj[s[i]].progress = studentObj[s[j]].progress /\ i <= j
         IN <<s[first]>> \o sortByProgress(splice(s, first))

(* what DataService.getStudents(options) returns: a copy of the collection,
   filtered and sorted as the options ask *)
queryStudents(options) ==
    LET enrolledIn(s) == studentObj[s].courseId = options.filter
        filtered == IF options.filter # NULL THEN SelectSeq(students, enrolledIn) ELSE students
    IN IF options.sortBy # NoSort THEN sortByProgress(filtered) ELSE filtered

(* StudentManager.getStudents(options, useCache): the cache check; on a miss,
   up to the delay in DataService.getStudents *)
getStudents(p, options, useCache) ==
    /\ CanCall(p)
    /\ Issue(p, [op |-> "getStudents", options |-> options, useCache |-> useCache])
    /\ \E fresh \in Servable(studentCache, cacheKey("students_", options)) :
         IF useCache /\ fresh
         THEN Settle(p, <<>>, <<>>, Returns(studentCache[cacheKey("students_", options)].data))
         ELSE Settle(p, <<"studentsLoading">>, <<"studentsError">>, Await("getStudents_delay"))
    /\ UNCHANGED <<testVars, now, observers, acked, alt, initialized, storage, dataVars, cacheVars, local>>

(* StudentManager.getStudentsByCourse(courseId) *)
getStudentsByCourse(p, courseId) ==
    getStudents(p, [filter |-> courseId, sortBy |-> NoSort], TRUE)

(* DataService.getStudents after its delay; the manager caches the result *)
DataService_getStudents(p) ==
    /\ At(p, "getStudents_delay")
    /\ studentCache' = [studentCache EXCEPT ![cacheKey("students_", call[p].options)] =
                                              Entry(queryStudents(call[p].options))]
    /\ Settle(p, <<"studentsLoaded">>, <<"studentsError">>, Returns(queryStudents(call[p].options)))
    /\ UNCHANGED <<testVars, now, observers, acked, alt, initialized, storage, calls, dataVars, courseCache, call, local>>

(* the rest of StudentManager.getStudents({}, false), the isEnrolled filter,
   then simulateProgress's loop up to its first await *)
simulateProgress_gotStudents(p) ==
    /\ At(p, "simulateProgress_getStudents")
    /\ studentCache' = [studentCache EXCEPT ![cacheKey("students_", NoOptions)] =
                                              Entry(queryStudents(NoOptions))]
    /\ LET enrolled(s) == isEnrolled(studentObj[s])
       IN iterateStudents(p, SelectSeq(queryStudents(NoOptions), enrolled), <<>>,
                          <<"studentsLoaded">>)
    /\ UNCHANGED <<testVars, now, observers, acked, alt, initialized, storage, calls, dataVars, courseCache,
                   call>>

(* ---------------------------- TestFramework ---------------------------- *)
(* the categories of the constructor; registerTest adds others on demand,
   which the model does not use *)
Categories == {"unit", "integration", "ui"}

(* what a test function does when it is invoked: it returns (or resolves),
   throws (or rejects), does either from one invocation to the next, settles
   only after the test's timeout, or never settles *)
TestFunctions == {"returns", "throws", "flaky", "slow", "hangs"}

AssertionMessage == "Assertion failed"

(* null where an error message is expected *)
NoError == ""

(* the arguments of the registerTest calls: name, testFunction, category and
   the options timeout, retries and skip, NULL for a number left out *)
TestInputs ==
    { [name |-> "t1", testFunction |-> "returns", category |-> "unit",
       timeout |-> NULL, retries |-> NULL, skip |-> FALSE],
      [name |-> "t1", testFunction |-> "throws", category |-> "integration",
       timeout |-> NULL, retries |-> 1, skip |-> FALSE],
      [name |-> "t2", testFunction |-> "flaky", category |-> "unit",
       timeout |-> NULL, retries |-> 2, skip |-> FALSE],
      [name |-> "t2", testFunction |-> "slow", category |-> "unit",
       timeout |-> 50, retries |-> 1, skip |-> FALSE],
      [name |-> "t3", testFunction |-> "hangs", category |-> "unit",
       timeout |-> 50, retries |-> NULL, skip |-> FALSE],
      [name |-> "t3", testFunction |-> "returns", category |-> "integration",
       timeout |-> NULL, retries |-> NULL, skip |-> TRUE] }

(* values of Date.now() - startTime, in ms *)
Durations == {0, 7}

(* `value || fallback` for an option that is a number or absent *)
orElse(value, fallback) == IF value = NULL THEN fallback ELSE value

(* Map.prototype.set on the Map's values: a new key goes to the end, an
   existing key keeps its place and takes the new value *)
mapSet(map, test) ==
    IF \E i \in DOMAIN map : map[i].name = test.name
    THEN [i \in DOMAIN map |-> IF map[i].name = test.name THEN test ELSE map[i]]
    ELSE Append(map, test)

Registrations == Len(testCategories["unit"]) + Len(testCategories["integration"])

(* TestFramework.registerTest(name, testFunction, category, options) *)
registerTest(input) ==
    /\ Ready
    /\ Registrations < MaxTests
    /\ LET test == [name |-> input.name, testFunction |-> input.testFunction,
                    category |-> input.category,
                    timeout |-> orElse(input.timeout, 5000),
                    retries |-> orElse(input.retries, 0),
                    skip |-> input.skip]
       IN /\ tests' = mapSet(tests, test)
          /\ testCategories' = [testCategories EXCEPT ![input.category] = Append(@, test)]
    /\ UNCHANGED <<results, isRunning, inProgress, log, envVars, acked, alt, initialized,
                   storage, calls, dataVars, cacheVars, pc, call, local, result, timers>>

(* TestFramework.getTestsToRun(category): a new array of the Map's values
   for 'all', otherwise the category's own array *)
getTestsToRun(category) ==
    IF category = "all" THEN tests
    ELSE IF category \in DOMAIN testCategories THEN testCategories[category]
    ELSE <<>>

(* the array runTests iterates over: the one made at its start for 'all',
   otherwise the category's array as it is now *)
testsToRun(p) ==
    IF call[p].category = "all" THEN local[p].testsToRun ELSE getTestsToRun(call[p].category)

(* TestFramework.generateTestSummary: the counts (the rates and durations
   derived from them are left out) *)
generateTestSummary(rs) ==
    [total |-> Len(rs),
     passed |-> Cardinality({ i \in DOMAIN rs : rs[i].status = "pass" }),
     failed |-> Cardinality({ i \in DOMAIN rs : rs[i].status = "fail" }),
     skipped |-> Cardinality({ i \in DOMAIN rs : rs[i].status = "skipped" })]

(* the index, from i on, of the first test without the skip flag *)
nextToRun(ts, i) ==
    IF \E j \in i..Len(ts) : ~ts[j].skip
    THEN CHOOSE j \in i..Len(ts) : ~ts[j].skip /\ \A k \in i..(j - 1) : ts[k].skip
    ELSE Len(ts) + 1

(* the results pushed for the tests i..j-1, which have the skip flag *)
skippedResults(ts, i, j) ==
    [k \in 1..(j - i) |-> [name |-> ts[i + k - 1].name, status |-> "skipped", duration |-> 0,
                            error |-> NoError, attempt |-> NULL]]

(* an invocation of a test function *)
Invocation(c, test, attempt) ==
    [name |-> test.name, testFunction |-> test.testFunction, attempt |-> attempt, run |-> c.run]

(* runSingleTest's loop at `attempt`, for the runTests call c: the call of
   test.testFunction(), raced against the timeout and awaited; `running` are
   the invocations in progress before it *)
invoke(p, c, ts, i, attempt, lastError, running, events) ==
    /\ local' = [local EXCEPT ![p] = [student |-> NULL, course |-> NULL,
                                       testsToRun |-> IF c.category = "all" THEN ts ELSE <<>>,
                                       i |-> i, attempt |-> attempt, lastError |-> lastError]]
    /\ inProgress' = running \cup {Invocation(c, ts[i], attempt)}
    /\ log' = Append(events, [event |-> "call", name |-> ts[i].name, attempt |-> attempt,
                               retries |-> ts[i].retries])
    /\ Goto(p, "runSingleTest_race")

(* the for loop of runTests from test i on, `rs` being the results so far:
   the tests with the skip flag are recorded; runSingleTest is called for the
   first one without, up to its await; with no test left, the summary, the
   finally block and the return (updateTestUI writes to the page only) *)
runLoop(p, c, ts, i, rs, running, events) ==
    LET j == nextToRun(ts, i)
    IN /\ results' = rs \o skippedResults(ts, i, j)
       /\ IF j > Len(ts)
          THEN /\ isRunning' = FALSE
               /\ Complete(p, [results |-> results', summary |-> generateTestSummary(results')])
               /\ inProgress' = running
               /\ log' = events
               /\ local' = [local EXCEPT ![p] = [student |-> NULL, course |-> NULL,
                                                  testsToRun |-> IF c.category = "all" THEN ts ELSE <<>>,
                                                  i |-> j, attempt |-> 0, lastError |-> NoError]]
          ELSE /\ isRunning' = TRUE
               /\ invoke(p, c, ts, j, 0, NoError, running, events)
               /\ UNCHANGED result

(* variant: the flag is not consulted *)
alreadyRunning_ignored == FALSE

(* the test `if (this.isRunning)` *)
alreadyRunning == isRunning

(* TestFramework.runTests(category) up to the await of the first
   runSingleTest call *)
runTests(p, category) ==
    /\ pc[p] = "idle" /\ Ready /\ calls < MaxCalls
    /\ Issue(p, [op |-> "runTests", category |-> category, run |-> calls + 1])
    /\ IF alreadyRunning
       THEN /\ Fail(p, "Tests are already running")
            /\ UNCHANGED <<results, isRunning, inProgress, log, local>>
       ELSE runLoop(p, call'[p], getTestsToRun(category), 1, <<>>, inProgress, <<>>)
    /\ UNCHANGED <<tests, testCategories, envVars, acked, alt, initialized, storage, dataVars,
                   cacheVars>>

(* how Promise.race([test.testFunction(), timeout]) settles, and whether the
   test function is still in progress then *)
race(test) ==
    LET resolved == [status |-> "resolved", error |-> NoError, pending |-> FALSE]
        rejected == [status |-> "rejected", error |-> AssertionMessage, pending |-> FALSE]
        timedOut == [status |-> "rejected", error |-> "Test timeout", pending |-> TRUE]
    IN CASE test.testFunction = "returns" -> {resolved}
         [] test.testFunction = "throws" -> {rejected}
         [] test.testFunction = "flaky" -> {resolved, rejected}
         [] OTHER -> {timedOut}

(* the race has settled: a pass is returned to runTests, which records it and
   goes on with the loop; a failure leads to the retry delay or, after the
   last attempt, to the return statement after runSingleTest's loop, which
   reads startTime, a const of the loop's body that is not in scope there:
   the ReferenceError leaves runSingleTest and runTests through the finally
   block *)
runSingleTest_settled(p) ==
    /\ At(p, "runSingleTest_race")
    /\ LET ts == testsToRun(p)
           i == local[p].i
           test == ts[i]
           attempt == local[p].attempt
       IN \E outcome \in race(test), duration \in Durations :
            LET running == IF outcome.pending THEN inProgress
                           ELSE inProgress \ {Invocation(call[p], test, attempt)}
                settled == Append(log, [event |-> "settled", name |-> test.name,
                                        attempt |-> attempt, status |-> outcome.status,
                                        error |-> outcome.error])
            IN IF outcome.status = "resolved"
               THEN runLoop(p, call[p], ts, i + 1,
                            Append(results, [name |-> test.name, status |-> "pass",
                                             duration |-> duration, error |-> NoError,
                                             attempt |-> attempt + 1]),
                            running, settled)
               ELSE IF attempt < test.retries
               THEN /\ local' = [local EXCEPT ![p].lastError = outcome.error]
                    /\ log' = Append(settled, [event |-> "delay", name |-> test.name, ms |-> 100])
                    /\ inProgress' = running
                    /\ Goto(p, "runSingleTest_delay")
                    /\ UNCHANGED <<results, isRunning, result>>
               ELSE /\ isRunning' = FALSE
                    /\ inProgress' = running
                    /\ Fail(p, "startTime is not defined")
                    /\ log' = settled
                    /\ UNCHANGED <<results, local>>
    /\ UNCHANGED <<tests, testCategories, envVars, acked, alt, initialized, storage, calls,
                   dataVars, cacheVars, call>>

(* Utils.delay(100) is over: the next attempt *)
runSingleTest_retry(p) ==
    /\ At(p, "runSingleTest_delay")
    /\ invoke(p, call[p], testsToRun(p), local[p].i, local[p].attempt + 1, local[p].lastError,
              inProgress, log)
    /\ UNCHANGED <<tests, testCategories, results, isRunning, envVars, acked, alt, initialized,
                   storage, calls, dataVars, cacheVars, call, result>>

(* a test function that outlived its timeout settles; nobody awaits it *)
testFunction_settles(invocation) ==
    /\ Ready
    /\ invocation \in inProgress
    /\ invocation.testFunction = "slow"
    /\ \A p \in Callers :
          pc[p] = "runSingleTest_race" =>
             invocation # Invocation(call[p], testsToRun(p)[local[p].i], local[p].attempt)
    /\ inProgress' = inProgress \ {invocation}
    /\ UNCHANGED <<tests, testCategories, results, isRunning, log, envVars, acked, alt,
                   initialized, storage, calls, dataVars, cacheVars, pc, call, local, result, timers>>

(* ---------------------------- Utils.retryWithBackoff -------------------- *)
(* what the n-th call of fn resolves with and what it rejects with: every
   call has a value and an error of its own *)
fnValue(n) == 10 * n
fnError(n) == <<"failure 1", "failure 2", "failure 3", "failure 4", "failure 5">>[n]

(* the calls of fn made so far *)
fnCalls == SelectSeq(log, LAMBDA e : e.event = "call")

(* variant: the same backoff again *)
nextBackoff_same(backoff) == backoff

(* the backoff handed to the recursive call *)
nextBackoff(backoff) == backoff * 2

(* `await fn()` in retryWithBackoff(fn, retries, backoff): fn is called and
   its promise awaited *)
callFn(p, retries, backoff, events) ==
    /\ local' = [local EXCEPT ![p] = [student |-> NULL, course |-> NULL,
                                       retries |-> retries, backoff |-> backoff]]
    /\ log' = Append(events, [event |-> "call",
                               n |-> Len(SelectSeq(events, LAMBDA e : e.event = "call")) + 1])
    /\ Goto(p, "retryWithBackoff_fn")
    /\ UNCHANGED result

(* Utils.retryWithBackoff(fn, retries, backoff) up to the await of fn() *)
retryWithBackoff(p, retries, backoff) ==
    /\ pc[p] = "idle" /\ Ready /\ calls < MaxCalls
    /\ Issue(p, [op |-> "retryWithBackoff", retries |-> retries, backoff |-> backoff])
    /\ callFn(p, retries, backoff, <<>>)
    /\ UNCHANGED <<tests, testCategories, results, isRunning, inProgress, envVars, acked, alt,
                   initialized, storage, dataVars, cacheVars>>

(* fn's promise has settled: its value is returned; its error is thrown when
   no retry is left, otherwise delay(backoff) is awaited *)
retryWithBackoff_settled(p) ==
    /\ At(p, "retryWithBackoff_fn")
    /\ LET n == Len(fnCalls)
       IN \E resolved \in BOOLEAN :
            IF resolved
            THEN /\ log' = Append(log, [event |-> "resolved", n |-> n])
                 /\ Complete(p, fnValue(n))
            ELSE /\ IF local[p].retries > 0
                    THEN /\ log' = log \o <<[event |-> "rejected", n |-> n],
                                             [event |-> "delay", ms |-> local[p].backoff]>>
                         /\ Goto(p, "retryWithBackoff_delay")
                         /\ UNCHANGED result
                    ELSE /\ log' = Append(log, [event |-> "rejected", n |-> n])
                         /\ Fail(p, fnError(n))
    /\ UNCHANGED <<tests, testCategories, results, isRunning, inProgress, envVars, acked, alt,
                   initialized, storage, calls, dataVars, cacheVars, call, local>>

(* the delay is over: retryWithBackoff(fn, retries - 1, backoff * 2), whose
   outcome is the outcome of the outer call *)
retryWithBackoff_retry(p) ==
    /\ At(p, "retryWithBackoff_delay")
    /\ callFn(p, local[p].retries - 1, nextBackoff(local[p].backoff), log)
    /\ UNCHANGED <<tests, testCategories, results, isRunning, inProgress, envVars, acked, alt,
                   initialized, storage, calls, dataVars, cacheVars, call>>

(* ---------------------------- Utils.debounce ---------------------------- *)
(* time, where debounce is followed, is counted in steps of 50 ms *)
WaitInputs == {2, 3}
ArgumentInputs == {"a", "b"}

(* the caller p holds a function returned by Utils.debounce *)
Debounced(p) == call[p].op = "debounce"

(* Utils.debounce(func, wait): the closure is created, `timeout` undefined *)
debounce(p, wait) ==
    /\ pc[p] = "idle" /\ call[p] = NoCall /\ calls = 0
    /\ call' = [call EXCEPT ![p] = [op |-> "debounce", wait |-> wait]]
    /\ UNCHANGED <<testVars, envVars, acked, alt, initialized, storage, calls, dataVars, cacheVars,
                   pc, local, result, timers>>

(* variant: the pending timer is left alone *)
clearTimeout_ignored(queue, p) == queue

(* clearTimeout(timeout): the pending timer of p's closure, if any, is
   removed *)
clearTimeout(queue, p) == SelectSeq(queue, LAMBDA timer : timer.caller # p)

(* setTimeout(later, wait), `later` holding the arguments of this call *)
setTimeoutLater(queue, p, ms, args) ==
    LET sooner == Cardinality({ i \in 1..Len(queue) : queue[i].after <= ms })
    IN SubSeq(queue, 1, sooner) \o <<[caller |-> p, after |-> ms, args |-> args]>>
         \o SubSeq(queue, sooner + 1, Len(queue))

(* executedFunction(...args), the function debounce returned *)
executedFunction(p, args) ==
    /\ Debounced(p) /\ calls < MaxCalls
    /\ calls' = calls + 1
    /\ timers' = [timers EXCEPT !.queue = setTimeoutLater(clearTimeout(@, p), p, call[p].wait,
                                                            args)]
    /\ log' = Append(log, [event |-> "call", args |-> args, at |-> now])
    /\ UNCHANGED <<tests, testCategories, results, isRunning, inProgress, envVars, acked, alt,
                   initialized, storage, dataVars, cacheVars, pc, call, local, result>>

(* the timer is due: later() clears `timeout` and calls func(...args) *)
later(p) ==
    /\ Debounced(p)
    /\ timers.queue # <<>> /\ timers.queue[1].caller = p /\ timers.queue[1].after = 0
    /\ timers' = [timers EXCEPT !.queue = clearTimeout(Tail(@), p)]
    /\ log' = Append(log, [event |-> "run", args |-> timers.queue[1].args, at |-> now])
    /\ UNCHANGED <<tests, testCategories, results, isRunning, inProgress, envVars, acked, alt,
                   initialized, storage, calls, dataVars, cacheVars, pc, call, local, result>>

(* time passes, no further than the next timer is due *)
passes(ms) ==
    /\ timers.timed /\ now # Untimed
    /\ timers.queue # <<>> /\ ms <= timers.queue[1].after
    /\ now' = now + ms
    /\ timers' = [timers EXCEPT !.queue = waited(@, ms)]
    /\ UNCHANGED <<testVars, observers, notified, acked, alt, initialized, storage, calls,
                   dataVars, cacheVars, pc, call, local, result>>

(* ---------------------------- ValidationService: the forms ------------- *)
(* the value of a property that the object does not have *)
Undefined == "undefined"

(* the objects handed to validateCourse: each property a string of the form,
   or missing *)
CourseForms ==
    [title : {Undefined, "", "  ", " Al ", "Algebra"},
     description : {Undefined, "Too short", "A first course in algebra"},
     duration : {Undefined, "abc", "0", "40", "12abc", "1001"},
     instructor : {Undefined, "A", "R2D2", "Ann Lee"},
     difficulty : {Undefined, "expert", "Advanced"}]

(* the objects handed to validateStudent *)
StudentForms ==
    [name : {Undefined, "  ", "A", "Ann Lee"},
     email : {Undefined, "", "ann", "ann@x.org"},
     phone : {Undefined, "", "abc", "555-0100"},
     courseId : {Undefined, "  ", "c1"}]

(* !value *)
falsy(value) == value = Undefined \/ value = ""

(* parseFloat(value): <<>> for NaN, otherwise the number read from the
   longest numeric prefix *)
parseFloat(value) ==
    CASE value = "0" -> <<0>>
      [] value = "40" -> <<40>>
      [] value = "12abc" -> <<12>>
      [] value = "1001" -> <<1001>>
      [] OTHER -> <<>>

(* /^[\+]?[1-9][\d]{0,15}$/ on the value without spaces, hyphens and
   parentheses *)
phoneRegex(value) == value \in {"555-0100"}

(* /^[a-zA-Z\s\-'\.]+$/ *)
nameRegex(value) == value \in {"A", "Ann Lee", "Ann", "Bob"}

Valid == [isValid |-> TRUE, message |-> NoError]
Invalid(message) == [isValid |-> FALSE, message |-> message]

(* validateField(validatorName, value, options): the validator's verdict;
   validate is called with the options object as its second argument, which
   the 'required' validator takes for the field name *)
validateField(validatorName, value, options) ==
    CASE validatorName = "email" ->
           IF falsy(value) \/ trim(value) = "" THEN Invalid("Email is required")
           ELSE IF ~isValidEmail(value) THEN Invalid("Please enter a valid email address")
           ELSE Valid
      [] validatorName = "required" ->
           IF falsy(value) \/ trim(value) = "" THEN Invalid("[object Object] is required")
           ELSE Valid
      [] validatorName = "length" ->
           LET length == IF falsy(value) THEN 0 ELSE Len(value)
           IN IF length < options.min
              THEN Invalid(options.fieldName \o " must be at least " \o ToString(options.min)
                           \o " characters long")
              ELSE IF length > options.max
              THEN Invalid(options.fieldName \o " must be no more than "
                           \o ToString(options.max) \o " characters long")
              ELSE Valid
      [] validatorName = "number" ->
           LET num == parseFloat(value)
           IN IF num = <<>> THEN Invalid(options.fieldName \o " must be a valid number")
              ELSE IF num[1] < options.min
              THEN Invalid(options.fieldName \o " must be at least " \o ToString(options.min))
              ELSE IF num[1] > options.max
              THEN Invalid(options.fieldName \o " cannot exceed " \o ToString(options.max))
              ELSE Valid
      [] validatorName = "phone" ->
           IF falsy(value) \/ trim(value) = "" THEN Valid
           ELSE IF ~phoneRegex(value) THEN Invalid("Please enter a valid phone number")
           ELSE Valid
      [] validatorName = "name" ->
           IF falsy(value) \/ trim(value) = "" THEN Invalid("Name is required")
           ELSE IF Len(trim(value)) < 2 THEN Invalid("Name must be at least 2 characters long")
           ELSE IF Len(trim(value)) > 100
                THEN Invalid("Name must be no more than 100 characters long")
           ELSE IF ~nameRegex(trim(value))
                THEN Invalid("Name can only contain letters, spaces, hyphens, and apostrophes")
           ELSE Valid
      [] validatorName = "difficulty" ->
           IF value = Undefined
              \/ toLowerCase(value) \notin {"beginner", "intermediate", "advanced"}
           THEN Invalid("Difficulty must be one of: Beginner, Intermediate, Advanced")
           ELSE Valid

NoOption == [fieldName |-> "Field"]

(* errors[key] = message *)
setError(errors, key, message) ==
    [k \in DOMAIN errors \cup {key} |-> IF k = key THEN message ELSE errors[k]]

(* variant: a block is skipped once an earlier field has failed *)
checkField_first(validation, key, checks) ==
    IF ~validation.isValid THEN validation
    ELSE LET failing == { i \in DOMAIN checks : ~checks[i].isValid }
         IN IF failing = {} THEN validation
            ELSE [isValid |-> FALSE,
                  errors |-> setError(validation.errors, key,
                                      checks[CHOOSE i \in failing : \A j \in failing : i <= j].message)]

(* one block of validateCourse or validateStudent: the checks of a field,
   made in turn up to the first that fails, whose message is stored under the
   field's key with isValid set to false *)
checkField(validation, key, checks) ==
    LET failing == { i \in DOMAIN checks : ~checks[i].isValid }
    IN IF failing = {} THEN validation
       ELSE [isValid |-> FALSE,
             errors |-> setError(validation.errors, key,
                                 checks[CHOOSE i \in failing : \A j \in failing : i <= j].message)]

NoErrors == [isValid |-> TRUE, errors |-> <<>>]

(* ValidationService.validateCourse(courseData), with the whole error map *)
ValidationService_validateCourse(courseData) ==
    LET title == checkField(NoErrors, "title",
                   << validateField("required", courseData.title, [fieldName |-> "Course title"]),
                      validateField("length", courseData.title,
                                    [min |-> 3, max |-> 100, fieldName |-> "Course title"]) >>)
        description == checkField(title, "description",
                   << validateField("required", courseData.description, [fieldName |-> "Description"]),
                      validateField("length", courseData.description,
                                    [min |-> 10, max |-> 500, fieldName |-> "Description"]) >>)
        duration == checkField(description, "duration",
                   << validateField("number", courseData.duration,
                                    [min |-> 1, max |-> 1000, fieldName |-> "Duration"]) >>)
        instructor == checkField(duration, "instructor",
                   << validateField("name", courseData.instructor, NoOption) >>)
    IN checkField(instructor, "difficulty",
                  << validateField("difficulty", courseData.difficulty, NoOption) >>)

(* ValidationService.validateStudent(studentData), with the whole error map *)
ValidationService_validateStudent(studentData) ==
    LET name == checkField(NoErrors, "name", << validateField("name", studentData.name, NoOption) >>)
        email == checkField(name, "email", << validateField("email", studentData.email, NoOption) >>)
        phone == IF falsy(studentData.phone) THEN email
                 ELSE checkField(email, "phone",
                                 << validateField("phone", studentData.phone, NoOption) >>)
    IN checkField(phone, "courseId",
                  << IF falsy(studentData.courseId) \/ trim(studentData.courseId) = ""
                     THEN Invalid("Please select a course") ELSE Valid >>)

(* validationService.validateCourse(courseData), called on its own *)
validateCourse_call(p, courseData) ==
    /\ pc[p] = "idle" /\ Ready /\ calls < MaxCalls
    /\ Issue(p, [op |-> "validateCourse", data |-> courseData])
    /\ Complete(p, ValidationService_validateCourse(courseData))
    /\ UNCHANGED <<testVars, envVars, acked, alt, initialized, storage, dataVars, cacheVars, local>>

(* validationService.validateStudent(studentData), called on its own *)
validateStudent_call(p, studentData) ==
    /\ pc[p] = "idle" /\ Ready /\ calls < MaxCalls
    /\ Issue(p, [op |-> "validateStudent", data |-> studentData])
    /\ Complete(p, ValidationService_validateStudent(studentData))
    /\ UNCHANGED <<testVars, envVars, acked, alt, initialized, storage, dataVars, cacheVars, local>>

(* ---------------------------- alternation scenario --------------------- *)
(* A single call site takes a student who is not enrolled and a course, notes
   the course's enrollment count, and from then on makes only enrollStudent
   and unenrollStudent calls for that pair, in turn, each after the previous
   one has returned normally; no other call is made meanwhile *)
alternation_start(studentId, courseId) ==
    /\ ~alt.active /\ initialized /\ calls < MaxCalls
    /\ \A p \in Callers : pc[p] = "idle"
    /\ studentId \in Range(students) /\ ~isEnrolled(studentObj[studentId])
    /\ courseId \in Range(courses)
    /\ alt' = [active |-> TRUE, studentId |-> studentId, courseId |-> courseId,
               startCount |-> courseObj[courseId].enrollmentCount,
               ok |-> TRUE, last |-> "none"]
    /\ UNCHANGED <<testVars, envVars, acked, initialized, storage, calls, dataVars, cacheVars, pc, call, local, result, timers>>

alternation_enroll ==
    /\ alt.active /\ alt.ok /\ alt.last \in {"none", "unenrollStudent"}
    /\ pc[1] = "idle" /\ calls < MaxCalls
    /\ Issue(1, [op |-> "enrollStudent", studentId |-> alt.studentId, courseId |-> alt.courseId])
    /\ Goto(1, "enrollStudent_getCourse")
    /\ UNCHANGED <<testVars, envVars, acked, alt, initialized, storage, dataVars, cacheVars, local, result>>

alternation_unenroll ==
    /\ alt.active /\ alt.ok /\ alt.last = "enrollStudent"
    /\ pc[1] = "idle" /\ calls < MaxCalls
    /\ Issue(1, [op |-> "unenrollStudent", studentId |-> alt.studentId])
    /\ Goto(1, "unenrollStudent_getStudent")
    /\ UNCHANGED <<testVars, envVars, acked, alt, initialized, storage, dataVars, cacheVars, local, result>>

(* ---------------------------- specification ---------------------------- *)
ConstructedOver(stored) ==
    /\ initialized = FALSE
    /\ storage \in stored
    /\ courses = <<>>
    /\ students = <<>>
    /\ courseObj = [id \in CourseIds |-> NoObj]
    /\ studentObj = [id \in StudentIds |-> NoObj]
    /\ nextCourseId = 1
    /\ nextStudentId = 1
    /\ courseCache = [k \in {CourseKey} |-> NoEntry]
    /\ studentCache = [k \in StudentKeys |-> NoEntry]
    /\ pc = [p \in Callers |-> "idle"]
    /\ call = [p \in Callers |-> NoCall]
    /\ local = [p \in Callers |-> NoLocal]
    /\ result = [p \in Callers |-> NoResult]
    /\ calls = 0
    /\ notified = [p \in Callers |-> <<>>]
    /\ tests = <<>>
    /\ testCategories = [category \in Categories |-> <<>>]
    /\ results = <<>>
    /\ isRunning = FALSE
    /\ inProgress = {}
    /\ log = <<>>
    /\ acked = NoAcked
    /\ alt = NoAlt

Constructed == ConstructedOver(StoredInputs)

(* no observer registered, the clock not tracked *)
Init ==
    /\ Constructed
    /\ now = Untimed
    /\ timers = NoTimers
    /\ observers = <<>>

Step(p) ==
    \/ Return(p)
    \/ initialize(p) \/ loadData(p) \/ initialize_saved(p)
    \/ \E data \in CourseInputs : createCourse(p, data)
    \/ DataService_createCourse(p) \/ createCourse_saved(p)
    \/ \E id \in CourseIds : deleteCourse(p, id)
    \/ DataService_deleteCourse(p) \/ deleteCourse_saved(p)
    \/ \E useCache \in BOOLEAN : getCourses(p, useCache)
    \/ DataService_getCourses(p)
    \/ \E data \in StudentInputs : createStudent(p, data)
    \/ createStudent_gotCourse(p) \/ DataService_createStudent(p) \/ createStudent_saved(p)
    \/ \E id \in StudentIds, email \in EmailUpdates : updateStudent(p, id, email)
    \/ updateStudent_gotStudent(p) \/ updateStudent_update(p) \/ updateStudent_saved(p)
    \/ \E id \in StudentIds : deleteStudent(p, id)
    \/ DataService_deleteStudent(p) \/ deleteStudent_saved(p)
    \/ \E studentId \in StudentIds \cup {BogusId}, courseId \in CourseIds \cup {BogusId} :
         enrollStudent(p, studentId, courseId)
    \/ enrollStudent_gotCourse(p) \/ enrollStudent_gotStudent(p)
    \/ enrollStudent_updateStudent(p) \/ enrollStudent_savedStudent(p)
    \/ enrollStudent_updateCourse(p) \/ enrollStudent_savedCourse(p)
    \/ \E studentId \in StudentIds : unenrollStudent(p, studentId)
    \/ unenrollStudent_gotStudent(p) \/ unenrollStudent_gotCourse(p)
    \/ unenrollStudent_updateCourse(p) \/ unenrollStudent_savedCourse(p)
    \/ unenrollStudent_updateStudent(p) \/ unenrollStudent_savedStudent(p)
    \/ \E id \in StudentIds, progress \in ProgressInputs : updateStudentProgress(p, id, progress)
    \/ updateStudentProgress_gotStudent(p) \/ updateStudentProgress_updateStudent(p)
    \/ updateStudentProgress_saved(p)
    \/ \E useCache \in BOOLEAN : getStudents(p, NoOptions, useCache)
    \/ DataService_getStudents(p)

Next == \E p \in Callers : Step(p)

Spec == Init /\ [][Next]_vars

(* one call site: calls never overlap *)
NextSeq == Step(1)

SpecSeq == Init /\ [][NextSeq]_vars

(* any calls, then the alternation scenario *)
NextAlt ==
    \/ Next
    \/ \E studentId \in StudentIds, courseId \in CourseIds : alternation_start(studentId, courseId)
    \/ alternation_enroll
    \/ alternation_unenroll

SpecAlt == Init /\ [][NextAlt]_vars

(* time passes *)
tick ==
    /\ now # Untimed /\ now < MaxTime
    /\ now' = now + 1
    /\ UNCHANGED <<testVars, observers, notified, acked, alt, initialized, storage, calls, dataVars,
                   cacheVars, pc, call, local, result, timers>>

(* reads with every query option, with the clock tracked; courses are
   created meanwhile, students are not touched *)
InitQuery ==
    /\ Constructed
    /\ now = 0
    /\ timers = NoTimers
    /\ observers = <<"listener">>

StepQuery(p) ==
    \/ Return(p)
    \/ initialize(p) \/ loadData(p) \/ initialize_saved(p)
    \/ \E data \in CourseInputs : createCourse(p, data)
    \/ DataService_createCourse(p) \/ createCourse_saved(p)
    \/ \E useCache \in BOOLEAN : getCourses(p, useCache)
    \/ DataService_getCourses(p)
    \/ \E options \in QueryOptions, useCache \in BOOLEAN : getStudents(p, options, useCache)
    \/ \E courseId \in CourseIds : getStudentsByCourse(p, courseId)
    \/ DataService_getStudents(p)

NextQuery == tick \/ \E p \in Callers : StepQuery(p)

SpecQuery == InitQuery /\ [][NextQuery]_vars

(* ---------------------------- courses with observers ------------------- *)
MaxObservers == 2

(* progress values with more than two decimals, and just outside [0, 100] *)
FineProgressInputs == {-1, 125, 33336, 100 * Percent, 100 * Percent + 1}

(* a title that validateCourse rejects *)
ShortTitle == "Al"

(* CourseManager.addObserver(observer); observers register at start-up,
   before the first call is made *)
addObserver(observer) ==
    /\ calls = 0 /\ Len(observers) < MaxObservers
    /\ observers' = Append(observers, observer)
    /\ UNCHANGED <<testVars, now, notified, acked, alt, initialized, storage, calls, dataVars, cacheVars,
                   pc, call, local, result, timers>>

(* one call site using the course manager, the progress update of the
   student manager and the models' updateProgress *)
StepCourses(p) ==
    \/ Return(p)
    \/ initialize(p) \/ loadData(p) \/ initialize_saved(p)
    \/ \E data \in CourseInputs \cup [id : {NULL}, title : {ShortTitle}, progress : {0},
                                      enrollmentCount : {0}] : createCourse(p, data)
    \/ DataService_createCourse(p) \/ createCourse_saved(p)
    \/ \E id \in CourseIds : deleteCourse(p, id)
    \/ DataService_deleteCourse(p) \/ deleteCourse_saved(p)
    \/ \E useCache \in BOOLEAN : getCourses(p, useCache)
    \/ DataService_getCourses(p)
    \/ \E id \in CourseIds, progress \in FineProgressInputs : updateCourseProgress(p, id, progress)
    \/ updateCourseProgress_gotCourse(p) \/ updateCourseProgress_update(p)
    \/ updateCourseProgress_saved(p)
    \/ simulateProgress(p) \/ simulateProgress_gotCourses(p)
    \/ \E id \in StudentIds, progress \in FineProgressInputs : updateStudentProgress(p, id, progress)
    \/ updateStudentProgress_gotStudent(p) \/ updateStudentProgress_updateStudent(p)
    \/ updateStudentProgress_saved(p)
    \/ \E id \in CourseIds, progress \in FineProgressInputs : Course_updateProgress(p, id, progress)
    \/ \E id \in StudentIds, progress \in FineProgressInputs : Student_updateProgress(p, id, progress)

NextCourses ==
    \/ \E observer \in ObserverKinds : addObserver(observer)
    \/ StepCourses(1)

SpecCourses == Init /\ [][NextCourses]_vars

(* ---------------------------- test runs -------------------------------- *)
RunCategories == {"all", "unit", "integration", "ui"}

StepTests(p) ==
    \/ Return(p)
    \/ \E category \in RunCategories : runTests(p, category)
    \/ runSingleTest_settled(p)
    \/ runSingleTest_retry(p)

NextTests ==
    \/ \E input \in TestInputs : registerTest(input)
    \/ \E p \in Callers : StepTests(p)
    \/ \E invocation \in inProgress : testFunction_settles(invocation)

(* the page opened for the first time: nothing stored *)
InitTests == Init /\ storage = NoData

SpecTests == InitTests /\ [][NextTests]_vars

(* ---------------------------- validation of forms ---------------------- *)
NextValidate ==
    \/ Return(1)
    \/ \E courseData \in CourseForms : validateCourse_call(1, courseData)
    \/ \E studentData \in StudentForms : validateStudent_call(1, studentData)

SpecValidate == InitTests /\ [][NextValidate]_vars

(* two CourseManager calls issued back-to-back by one piece of code, call
   site 1 then call site 2 before any timer has fired, the Utils.delay timers
   firing at the times they were set for *)
FirstAwaits == {"createCourse_delay", "deleteCourse_delay", "getCourses_delay",
                "getCourseById_delay"}

CourseCall(p) ==
    \/ \E data \in CourseInputs : createCourse(p, data)
    \/ \E id \in CourseIds : deleteCourse(p, id)
    \/ \E useCache \in BOOLEAN : getCourses(p, useCache)
    \/ \E id \in CourseIds : getCourseById(p, id)

NextOrder ==
    \/ \E p \in {1, 2} : Return(p)
    \/ pc[2] = "idle" /\ (initialize(1) \/ CourseCall(1))
    \/ pc[1] \in FirstAwaits /\ CourseCall(2)
    \/ \E p \in {1, 2} :
         \/ loadData(p) \/ initialize_saved(p)
         \/ DataService_createCourse(p) \/ createCourse_saved(p)
         \/ DataService_deleteCourse(p) \/ deleteCourse_saved(p)
         \/ DataService_getCourses(p)
         \/ DataService_getCourseById(p)

InitTimed ==
    /\ Constructed
    /\ now = Untimed
    /\ timers = [timed |-> TRUE, queue |-> <<>>]
    /\ observers = <<>>

SpecOrder == InitTimed /\ [][NextOrder]_vars

(* enrollStudent and unenrollStudent calls that may overlap, the Utils.delay
   timers firing at the times they were set for *)
StepEnroll(p) ==
    \/ Return(p)
    \/ initialize(p) \/ loadData(p) \/ initialize_saved(p)
    \/ \E studentId \in StudentIds, courseId \in CourseIds : enrollStudent(p, studentId, courseId)
    \/ enrollStudent_gotCourse(p) \/ enrollStudent_gotStudent(p)
    \/ enrollStudent_updateStudent(p) \/ enrollStudent_savedStudent(p)
    \/ enrollStudent_updateCourse(p) \/ enrollStudent_savedCourse(p)
    \/ \E studentId \in StudentIds : unenrollStudent(p, studentId)
    \/ unenrollStudent_gotStudent(p) \/ unenrollStudent_gotCourse(p)
    \/ unenrollStudent_updateCourse(p) \/ unenrollStudent_savedCourse(p)
    \/ unenrollStudent_updateStudent(p) \/ unenrollStudent_savedStudent(p)

NextEnroll == \E p \in Callers : StepEnroll(p)

SpecEnroll == InitTimed /\ [][NextEnroll]_vars

(* courses created and updated with their duration and difficulty: 10, 10.5
   and 15 hours and none, the levels as the forms and the validators'
   messages write them *)
CourseDetails ==
    [id : {NULL}, title : {"Algebra", "Biology"}, progress : {0}, enrollmentCount : {0},
     duration : {0, 10 * Hour, 105, 15 * Hour},
     difficulty : {"beginner", "intermediate", "advanced", "Advanced", "expert"}]

CourseUpdates ==
    [duration : {0, 10 * Hour, 105, 15 * Hour}]
      \cup [difficulty : {"beginner", "intermediate", "advanced", "Advanced", "expert"}]

NextDetails ==
    \/ Return(1)
    \/ initialize(1) \/ loadData(1) \/ initialize_saved(1)
    \/ \E data \in CourseDetails : createCourse(1, data)
    \/ DataService_createCourse(1) \/ createCourse_saved(1)
    \/ \E id \in CourseIds, updates \in CourseUpdates : updateCourse(1, id, updates)
    \/ updateCourse_gotCourse(1) \/ updateCourse_update(1) \/ updateCourse_saved(1)

SpecDetails == InitTests /\ [][NextDetails]_vars

(* courses created with a progress of their own, the enrollment calls, the
   progress updates and the two simulateProgress loops, from one call site *)
CourseProgressInputs ==
    [id : {NULL}, title : {"Algebra", "Biology"}, progress : ProgressInputs, enrollmentCount : {0}]

NextProgress ==
    \/ Return(1)
    \/ initialize(1) \/ loadData(1) \/ initialize_saved(1)
    \/ \E data \in CourseProgressInputs : createCourse(1, data)
    \/ DataService_createCourse(1) \/ createCourse_saved(1)
    \/ \E data \in StudentInputs : createStudent(1, data)
    \/ createStudent_gotCourse(1) \/ DataService_createStudent(1) \/ createStudent_saved(1)
    \/ \E studentId \in StudentIds, courseId \in CourseIds : enrollStudent(1, studentId, courseId)
    \/ enrollStudent_gotCourse(1) \/ enrollStudent_gotStudent(1)
    \/ enrollStudent_updateStudent(1) \/ enrollStudent_savedStudent(1)
    \/ enrollStudent_updateCourse(1) \/ enrollStudent_savedCourse(1)
    \/ \E studentId \in StudentIds : unenrollStudent(1, studentId)
    \/ unenrollStudent_gotStudent(1) \/ unenrollStudent_gotCourse(1)
    \/ unenrollStudent_updateCourse(1) \/ unenrollStudent_savedCourse(1)
    \/ unenrollStudent_updateStudent(1) \/ unenrollStudent_savedStudent(1)
    \/ \E id \in CourseIds, progress \in ProgressInputs : updateCourseProgress(1, id, progress)
    \/ updateCourseProgress_gotCourse(1) \/ updateCourseProgress_update(1)
    \/ updateCourseProgress_saved(1)
    \/ \E id \in StudentIds, progress \in ProgressInputs : updateStudentProgress(1, id, progress)
    \/ updateStudentProgress_gotStudent(1) \/ updateStudentProgress_updateStudent(1)
    \/ updateStudentProgress_saved(1)
    \/ \E id \in CourseIds, progress \in ProgressInputs : Course_updateProgress(1, id, progress)
    \/ \E id \in StudentIds, progress \in ProgressInputs : Student_updateProgress(1, id, progress)
    \/ simulateProgress(1) \/ simulateProgress_gotCourses(1)
    \/ StudentManager_simulateProgress(1) \/ simulateProgress_gotStudents(1)

SpecProgress == Init /\ [][NextProgress]_vars

(* the repository's update methods called directly, from one call site, on a
   stored record whose students carry phone and dates and whose courses
   carry duration and difficulty *)
DetailedData ==
    [present |-> TRUE, corrupt |-> FALSE,
     courses |-> << [id |-> 1, title |-> "Algebra", progress |-> 40 * Percent,
                     enrollmentCount |-> 1, duration |-> 10 * Hour, difficulty |-> "beginner"],
                    [id |-> 2, title |-> "Biology", progress |-> 0,
                     enrollmentCount |-> 0, duration |-> 15 * Hour, difficulty |-> "advanced"] >>,
     students |-> << [id |-> 1, name |-> "Ann", email |-> "ann@x.org", courseId |-> 1,
                      progress |-> 40 * Percent, completedLessons |-> {"L1"},
                      phone |-> "555-0100", enrollmentDate |-> 0, updatedAt |-> 0],
                     [id |-> 2, name |-> "Bob", email |-> "bob@x.org", courseId |-> NULL,
                      progress |-> 0, completedLessons |-> {}, phone |-> Null,
                      enrollmentDate |-> 0, updatedAt |-> 0] >>]

Property(key, value) == [key |-> key, value |-> value]

(* update objects for students, as their properties in order *)
StudentUpdates ==
    { << Property("name", " Cy ") >>,
      << Property("email", "ANN@x.org") >>,
      << Property("phone", "") >>,
      << Property("name", "A") >>,
      << Property("name", "ann lee"), Property("phone", Null) >>,
      << Property("phone", Null), Property("name", "ann lee") >>,
      << Property("courseId", 2), Property("progress", 50 * Percent),
         Property("completedLessons", {}), Property("enrollmentDate", 7) >>,
      << Property("name", "Bob"), Property("progress", 150 * Percent),
         Property("courseId", NULL) >> }

(* update objects for courses *)
RepositoryCourseUpdates ==
    { [title |-> "Geometry"],
      [progress |-> 150 * Percent],
      [enrollmentCount |-> 5, duration |-> 20 * Hour],
      [title |-> "", progress |-> 70 * Percent],
      [difficulty |-> "expert"],
      [difficulty |-> "advanced", progress |-> 0, enrollmentCount |-> 0] }

NextUpdate ==
    \/ Return(1)
    \/ initialize(1) \/ loadData(1)
    \/ \E id \in StudentIds, updates \in StudentUpdates : Repository_updateStudent(1, id, updates)
    \/ Repository_updateStudent_update(1)
    \/ \E id \in CourseIds, updates \in RepositoryCourseUpdates :
         Repository_updateCourse(1, id, updates)
    \/ Repository_updateCourse_update(1)
    \/ Repository_update_saved(1)

InitUpdate ==
    /\ ConstructedOver({DetailedData})
    /\ now = Untimed
    /\ timers = NoTimers
    /\ observers = <<>>

SpecUpdate == InitUpdate /\ [][NextUpdate]_vars

(* CourseManager calls made at any time from the construction on, before or
   after an initialization has completed; the Utils.delay timers fire at the
   times they were set for, and calls are made a quarter of API_DELAY apart
   or when a timer fires *)
NextInitialize ==
    \/ \E p \in Callers :
         \/ Return(p)
         \/ \E id \in CourseIds, progress \in {70 * Percent} :
              ensureInitialized(p, [op |-> "updateCourseProgress", id |-> id, progress |-> progress],
                                "updateCourseProgress_getCourse")
         \/ \E id \in CourseIds :
              ensureInitialized(p, [op |-> "getCourseById", id |-> id], "getCourseById_delay")
         \/ ensureInitialized_loadData(p) \/ ensureInitialized_saved(p)
         \/ updateCourseProgress_gotCourse(p) \/ updateCourseProgress_update(p)
         \/ updateCourseProgress_saved(p)
         \/ DataService_getCourseById(p)
    \/ elapse(API_DELAY \div 4)

SpecInitialize == InitTimed /\ [][NextInitialize]_vars

(* the mutating operations and the list reads of both managers from one call
   site, the same observers registered with both managers *)
StepEvents(p) ==
    \/ Return(p)
    \/ initialize(p) \/ loadData(p) \/ initialize_saved(p)
    \/ \E data \in CourseInputs : createCourse(p, data)
    \/ DataService_createCourse(p) \/ createCourse_saved(p)
    \/ \E id \in CourseIds, updates \in [title : {"Biology", ShortTitle}] :
         updateCourse(p, id, updates)
    \/ updateCourse_gotCourse(p) \/ updateCourse_update(p) \/ updateCourse_saved(p)
    \/ \E id \in CourseIds : deleteCourse(p, id)
    \/ DataService_deleteCourse(p) \/ deleteCourse_saved(p)
    \/ \E id \in CourseIds, progress \in ProgressInputs : updateCourseProgress(p, id, progress)
    \/ updateCourseProgress_gotCourse(p) \/ updateCourseProgress_update(p)
    \/ updateCourseProgress_saved(p)
    \/ simulateProgress(p) \/ simulateProgress_gotCourses(p)
    \/ getCourses(p, TRUE) \/ DataService_getCourses(p)
    \/ \E data \in StudentInputs : createStudent(p, data)
    \/ createStudent_gotCourse(p) \/ DataService_createStudent(p) \/ createStudent_saved(p)
    \/ \E id \in StudentIds, email \in EmailUpdates : updateStudent(p, id, email)
    \/ updateStudent_gotStudent(p) \/ updateStudent_update(p) \/ updateStudent_saved(p)
    \/ \E id \in StudentIds : deleteStudent(p, id)
    \/ DataService_deleteStudent(p) \/ deleteStudent_saved(p)
    \/ \E studentId \in StudentIds, courseId \in CourseIds : enrollStudent(p, studentId, courseId)
    \/ enrollStudent_gotCourse(p) \/ enrollStudent_gotStudent(p)
    \/ enrollStudent_updateStudent(p) \/ enrollStudent_savedStudent(p)
    \/ enrollStudent_updateCourse(p) \/ enrollStudent_savedCourse(p)
    \/ \E studentId \in StudentIds : unenrollStudent(p, studentId)
    \/ unenrollStudent_gotStudent(p) \/ unenrollStudent_gotCourse(p)
    \/ unenrollStudent_updateCourse(p) \/ unenrollStudent_savedCourse(p)
    \/ unenrollStudent_updateStudent(p) \/ unenrollStudent_savedStudent(p)
    \/ \E id \in StudentIds, progress \in ProgressInputs : updateStudentProgress(p, id, progress)
    \/ updateStudentProgress_gotStudent(p) \/ updateStudentProgress_updateStudent(p)
    \/ updateStudentProgress_saved(p)
    \/ StudentManager_simulateProgress(p) \/ simulateProgress_gotStudents(p)
    \/ getStudents(p, NoOptions, TRUE) \/ DataService_getStudents(p)

NextEvents == StepEvents(1)

(* the managers have an observer that throws from every handler and, after
   it, one that returns *)
InitEvents ==
    /\ Constructed
    /\ now = Untimed
    /\ timers = NoTimers
    /\ observers = <<"faulty", "listener">>

SpecEvents == InitEvents /\ [][NextEvents]_vars

(* retryWithBackoff called from one call site, one call after the other, with
   an fn that resolves or rejects as it likes from call to call *)
RetryInputs == 0..3
BackoffInputs == {0, 100, 1000}

NextRetry ==
    \/ Return(1)
    \/ \E retries \in RetryInputs, backoff \in BackoffInputs : retryWithBackoff(1, retries, backoff)
    \/ retryWithBackoff_settled(1)
    \/ retryWithBackoff_retry(1)

SpecRetry == Init /\ [][NextRetry]_vars

(* a debounced function called at any moments, the clock tracked *)
NextDebounce ==
    \/ \E wait \in WaitInputs : debounce(1, wait)
    \/ \E args \in ArgumentInputs : executedFunction(1, args)
    \/ later(1)
    \/ passes(1)

InitDebounce ==
    /\ Constructed
    /\ now = 0
    /\ timers = [timed |-> TRUE, queue |-> <<>>]
    /\ observers = <<>>

SpecDebounce == InitDebounce /\ [][NextDebounce]_vars

(* ---------------------------- properties ------------------------------- *)
Referencing(c) == { s \in Range(students) : studentObj[s].courseId = c }

CountsAgree == \A c \in Range(courses) : courseObj[c].enrollmentCount = Cardinality(Referencing(c))

Quiescent == \A p \in Callers : pc[p] = "idle"

(* the step, if any, that caller p takes from the given await *)
Resumes(p, label) == pc[p] = label /\ pc'[p] # label

FailsWith(p, error) ==
    pc'[p] = "done" /\ result'[p].status = "error" /\ result'[p].error = error

Counts == [c \in CourseIds |-> IF courseObj[c] = NoObj THEN NULL ELSE courseObj[c].enrollmentCount]

EqualIgnoringCase(a, b) ==
    \/ a = b
    \/ {a, b} = {"ann@x.org", "ANN@x.org"}
    \/ {a, b} = {"Algebra", "ALGEBRA"}

(* C1: whenever no call is in progress, calls having been made one after
   another, every course's enrollmentCount is the number of students whose
   courseId is that course *)
C1_CountsAgreeBetweenCalls == Quiescent => CountsAgree

(* C2: with calls overlapping, enrollmentCount and the number of referencing
   students agree in every state another operation can run in, and so also
   once all calls have completed *)
C2_CountsAgreeAlways == CountsAgree

(* C3: every student's non-null courseId is the id of a course of the
   collection, in every state, deleteCourse overlapping or not *)
C3_NoOrphanReference ==
    \A s \in Range(students) :
        studentObj[s].courseId # NULL => studentObj[s].courseId \in Range(courses)

(* C4: DataService.deleteCourse on a course of the collection that a student
   references fails with the conflict error and changes neither collection *)
C4_DeleteReferencedCourseFails ==
    [][\A p \in Callers :
          (/\ Resumes(p, "deleteCourse_delay")
           /\ call[p].id \in Range(courses)
           /\ Referencing(call[p].id) # {})
          => /\ FailsWith(p, "Cannot delete course with enrolled students")
             /\ UNCHANGED <<courses, students, courseObj, studentObj>>]_vars

C4_Witness ==
    \E p \in Callers :
        /\ pc[p] = "done" /\ call[p].op = "deleteCourse"
        /\ result[p].error = "Cannot delete course with enrolled students"
        /\ call[p].id \in Range(courses) /\ Referencing(call[p].id) # {}

(* C5: DataService.createStudent with a non-null courseId either appends the
   student and adds one to that course's count, or fails and leaves the
   students and every count as they were *)
C5_CreateStudentAllOrNothing ==
    [][\A p \in Callers :
          Resumes(p, "createStudent_delay") /\ call[p].data.courseId # NULL
          => \/ /\ pc'[p] = "done" /\ result'[p].status = "error"
                /\ students' = students /\ Counts' = Counts
             \/ /\ pc'[p] = "createStudent_save"
                /\ Len(students') = Len(students) + 1
                /\ Counts' = [Counts EXCEPT ![call[p].data.courseId] = @ + 1]]_vars

(* C6: DataService.createStudent with an email that equals an existing
   student's ignoring case fails with the conflict error, adds no student and
   changes no count; so a student is only ever added under an email no
   student has, also when two such calls overlap *)
C6_DuplicateEmailRejected ==
    [][\A p \in Callers :
          Resumes(p, "createStudent_delay")
          => LET taken == \E s \in Range(students) :
                              EqualIgnoringCase(studentObj[s].email, call[p].data.email)
             IN /\ taken => /\ FailsWith(p, "A student with this email already exists")
                            /\ students' = students /\ Counts' = Counts
                /\ students' # students => ~taken]_vars

C6_Witness ==
    \E p \in Callers :
        /\ pc[p] = "done" /\ call[p].op = "createStudent"
        /\ result[p].error = "A student with this email already exists"
        /\ \E s \in Range(students) :
               studentObj[s].email # call[p].data.email
               /\ EqualIgnoringCase(studentObj[s].email, call[p].data.email)

(* C7: no two students of the collection have emails that are equal ignoring
   case *)
C7_EmailsUnique ==
    \A s, u \in Range(students) :
        s # u => ~EqualIgnoringCase(studentObj[s].email, studentObj[u].email)

(* C8: enrollStudent fails, when it comes to the check, if the course is not
   in the collection, if the student is not, or if the student has a course;
   unenrollStudent fails if the student has none; and the failing step
   changes no student and no course *)
C8_EnrollmentPreconditions ==
    [][\A p \in Callers :
          /\ (Resumes(p, "enrollStudent_getCourse") /\ call[p].courseId \notin Range(courses))
             => FailsWith(p, "Course not found") /\ UNCHANGED dataVars
          /\ (Resumes(p, "enrollStudent_getStudent") /\ call[p].studentId \notin Range(students))
             => FailsWith(p, "Student not found") /\ UNCHANGED dataVars
          /\ (/\ Resumes(p, "enrollStudent_getStudent")
              /\ call[p].studentId \in Range(students)
              /\ studentObj[call[p].studentId].courseId # NULL)
             => /\ FailsWith(p, "Student is already enrolled in a course. Please unenroll first.")
                /\ UNCHANGED dataVars
          /\ (/\ Resumes(p, "unenrollStudent_getStudent")
              /\ call[p].studentId \in Range(students)
              /\ studentObj[call[p].studentId].courseId = NULL)
             => FailsWith(p, "Student is not enrolled in any course") /\ UNCHANGED dataVars]_vars

C8_Witness ==
    \E p \in Callers :
        /\ pc[p] = "done" /\ call[p].op = "unenrollStudent"
        /\ result[p].error = "Student is not enrolled in any course"
        /\ call[p].studentId \in Range(students)
        /\ studentObj[call[p].studentId].courseId = NULL

(* C9: in an alternation of enrollStudent and unenrollStudent calls that all
   returned normally, on one student and one course, begun with the student
   not enrolled: after an enrollStudent the course's count is the starting
   count plus one and the student's progress is 0; after an unenrollStudent
   the count is the starting count, the student's courseId is null, the
   progress 0 and completedLessons empty *)
C9_AlternationReturns ==
    (alt.active /\ alt.ok /\ pc[1] = "idle") =>
        LET s == studentObj[alt.studentId]
            count == courseObj[alt.courseId].enrollmentCount
        IN /\ alt.last = "enrollStudent" =>
                 count = alt.startCount + 1 /\ s.courseId = alt.courseId /\ s.progress = 0
           /\ alt.last = "unenrollStudent" =>
                 /\ count = alt.startCount /\ s.courseId = NULL
                 /\ s.progress = 0 /\ s.completedLessons = {}

C9_Witness ==
    /\ alt.active /\ alt.ok /\ pc[1] = "idle" /\ alt.last = "enrollStudent"
    /\ calls >= 3
    /\ courseObj[alt.courseId].enrollmentCount = alt.startCount + 1

(* C10: a read through a manager with the cache enabled returns every entity
   that a completed create call of that manager reported and that is still in
   the collection, and no entity that a completed delete call reported, also
   when an earlier read had filled the cache *)
C10_ReadReflectsCompletedMutation ==
    \A p \in Callers :
        (pc[p] = "done" /\ result[p].status = "ok") =>
            /\ (call[p].op = "getCourses" /\ call[p].useCache) =>
                  /\ acked.createdCourses \cap Range(courses) \subseteq Range(result[p].value)
                  /\ acked.deletedCourses \cap Range(result[p].value) = {}
            /\ (call[p].op = "getStudents" /\ call[p].useCache) =>
                  /\ acked.createdStudents \cap Range(students) \subseteq Range(result[p].value)
                  /\ acked.deletedStudents \cap Range(result[p].value) = {}

C10_Witness ==
    \E p \in Callers :
        /\ pc[p] = "done" /\ result[p].status = "ok"
        /\ call[p].op = "getCourses" /\ call[p].useCache
        /\ "courses" \in acked.evicted
        /\ acked.createdCourses \cap Range(result[p].value) # {}

(* C11: calls being made one after another, when a mutating manager call
   that has already changed the repository completes, by returning or by
   throwing, that manager's cache holds no entry any more *)
C11_MutationClearsCache ==
    [][\A p \in Callers :
          /\ (pc[p] \in {"createCourse_save", "deleteCourse_save"} /\ pc'[p] = "done") =>
                \A k \in DOMAIN courseCache : ~courseCache'[k].present
          /\ (pc[p] \in {"createStudent_save", "updateStudent_save", "deleteStudent_save",
                         "enrollStudent_saveStudent", "enrollStudent_saveCourse",
                         "unenrollStudent_saveCourse", "unenrollStudent_saveStudent",
                         "updateStudentProgress_save"} /\ pc'[p] = "done") =>
                \A k \in DOMAIN studentCache : ~studentCache'[k].present]_vars

(* C12: students not being mutated, a getStudents read, with the cache enabled
   or not, returns what DataService.getStudents returns for its options; so
   reads with different filters or sort options never share a cache entry *)
C12_CacheKeySeparatesQueries ==
    \A p \in Callers :
        (pc[p] = "done" /\ call[p].op = "getStudents" /\ result[p].status = "ok") =>
            result[p].value = queryStudents(call[p].options)

(* C13: a cache-enabled read whose entry is present and less than cacheTimeout
   old returns the entry's data at once, with no observer invoked and no
   repository read; any other read goes to the repository, and its result is
   written as the entry with the current time; an entry disappears only when
   a mutation clears the cache, and changes only when a read overwrites it,
   never by a tick of the clock *)
C13_EntryServedWhileYoung ==
    [][\A p \in Callers :
          LET c == call'[p]
              cache == IF c.op = "getCourses" THEN courseCache ELSE studentCache
              key == IF c.op = "getCourses" THEN CourseKey ELSE cacheKey("students_", c.options)
          IN /\ (pc[p] = "idle" /\ c.op \in {"getCourses", "getStudents"}) =>
                   IF c.useCache /\ cache[key].present
                      /\ now - cache[key].timestamp < cacheTimeout
                   THEN /\ pc'[p] = "done" /\ result'[p].status = "ok"
                        /\ result'[p].value = cache[key].data
                        /\ notified'[p] = <<>>
                        /\ UNCHANGED cacheVars
                   ELSE pc'[p] \in {"getCourses_delay", "getStudents_delay"}
             /\ (pc[p] \in {"getCourses_delay", "getStudents_delay"} /\ pc'[p] = "done") =>
                   LET written == IF call[p].op = "getCourses"
                                  THEN courseCache'[CourseKey]
                                  ELSE studentCache'[cacheKey("students_", call[p].options)]
                   IN written = [present |-> TRUE, data |-> result'[p].value, timestamp |-> now]
             /\ \A k \in DOMAIN courseCache :
                   /\ (courseCache[k].present /\ ~courseCache'[k].present) =>
                         \E q \in Callers : /\ pc[q] \in {"createCourse_save", "deleteCourse_save"}
                                            /\ pc'[q] = "done" /\ result'[q].status = "ok"
                   /\ (courseCache[k].present /\ courseCache'[k].present
                       /\ courseCache'[k] # courseCache[k]) =>
                         \E q \in Callers : pc[q] = "getCourses_delay" /\ pc'[q] = "done"
             /\ \A k \in DOMAIN studentCache :
                   (studentCache[k].present /\ studentCache'[k] # studentCache[k]) =>
                      \E q \in Callers : pc[q] = "getStudents_delay" /\ pc'[q] = "done"]_vars

(* a read served from an entry written one tick earlier, with an observer
   registered that was not invoked *)
C13_Witness ==
    \E p \in Callers :
        /\ pc[p] = "done" /\ call[p].op = "getCourses" /\ call[p].useCache
        /\ observers # <<>> /\ notified[p] = <<>>
        /\ courseCache[CourseKey].present /\ now - courseCache[CourseKey].timestamp = 1
        /\ result[p].value = courseCache[CourseKey].data

(* C14: when simulateProgress completes, by returning or by throwing, the
   update of every course of its enumeration has been attempted: none is
   left pending *)
C14_SimulateProgressAttemptsAll ==
    \A p \in Callers :
        (pc[p] = "done" /\ call[p].op = "simulateProgress") => local[p].pending = <<>>

(* C15: when a course manager call has failed, each observer's error handlers
   (courseError, coursesError, courseValidationError) have been invoked
   exactly once in all during the call *)
C15_FailureReportedOnce ==
    \A p \in Callers :
        (/\ pc[p] = "done" /\ result[p].status = "error"
         /\ call[p].op \in {"createCourse", "deleteCourse", "getCourses",
                            "updateCourseProgress", "simulateProgress"}) =>
            \A i \in DOMAIN observers :
                Cardinality({ rk \in { <<r, k>> : r \in DOMAIN notified[p], k \in 1..MaxObservers } :
                                /\ rk[2] \in DOMAIN notified[p][rk[1]]
                                /\ notified[p][rk[1]][rk[2]].observer = i
                                /\ notified[p][rk[1]][rk[2]].event \in ErrorEvents }) = 1

(* C16: every round of notifications invokes the observers that have a
   handler for the event, all of them and in registration order, whether or
   not one of them throws; no exception of a handler leaves the round, and no
   call fails with a handler's exception *)
C16_ObserversAllInvoked ==
    \A p \in Callers :
        /\ \A r \in DOMAIN notified[p] :
              LET round == notified[p][r]
              IN /\ [k \in DOMAIN round |-> round[k].observer] = Listening(round[1].event)
                 /\ \A k \in DOMAIN round : /\ round[k].event = round[1].event
                                             /\ round[k].threw => round[k].caught
        /\ (pc[p] = "done" /\ result[p].status = "error") => result[p].error # ObserverError

(* a call has returned normally after a round in which the first observer
   threw and the second was invoked all the same *)
C16_Witness ==
    \E p \in Callers :
        /\ pc[p] = "done" /\ result[p].status = "ok"
        /\ \E r \in DOMAIN notified[p] :
              /\ Len(notified[p][r]) = 2
              /\ notified[p][r][1].threw /\ ~notified[p][r][2].threw

(* C17: updateProgress(x) called on a course or a student fails and leaves the
   stored progress as it was when x < 0 or x > 100, and otherwise stores the
   multiple of 0.01 nearest to x (the upper one when x is half-way); the
   managers' updateCourseProgress and updateStudentProgress, given such an
   x outside the range, fail at once, before getCourseById / getStudentById,
   with the repository untouched *)
C17_UpdateProgressRange ==
    [][\A p \in Callers :
          LET c == call'[p]
              invalid == c.progress < 0 \/ c.progress > 100 * Percent
              rounded(v) == v % 10 = 0 /\ c.progress - 5 < v /\ v <= c.progress + 5
          IN /\ (pc[p] = "idle" /\ c.op = "Course.updateProgress") =>
                   IF invalid
                   THEN result'[p].status = "error" /\ UNCHANGED courseObj
                   ELSE /\ result'[p].status = "ok" /\ rounded(courseObj'[c.id].progress)
                        /\ \A id \in CourseIds \ {c.id} : courseObj'[id] = courseObj[id]
             /\ (pc[p] = "idle" /\ c.op = "Student.updateProgress") =>
                   IF invalid
                   THEN result'[p].status = "error" /\ UNCHANGED studentObj
                   ELSE /\ result'[p].status = "ok" /\ rounded(studentObj'[c.id].progress)
                        /\ \A id \in StudentIds \ {c.id} : studentObj'[id] = studentObj[id]
             /\ (/\ pc[p] = "idle" /\ c.op \in {"updateCourseProgress", "updateStudentProgress"}
                 /\ invalid) =>
                   /\ pc'[p] = "done" /\ result'[p].status = "error"
                   /\ UNCHANGED <<dataVars, storage, cacheVars>>]_vars

(* a value with three decimals has been stored rounded to two *)
C17_Witness ==
    \E p \in Callers :
        /\ pc[p] = "done" /\ result[p].status = "ok"
        /\ call[p].op = "Course.updateProgress" /\ call[p].progress = 33336
        /\ courseObj[call[p].id].progress = 33340

(* C18: initialized is set only by a step of an initialize() call and is never
   reset; it is set when such a call returns normally; an initialize() call
   made when it is set returns at once and changes neither the collections,
   nor the objects, nor the stored record *)
C18_InitializeIdempotent ==
    [][/\ initialized => initialized'
       /\ (~initialized /\ initialized') =>
             \E p \in Callers : /\ call[p].op = "initialize"
                                /\ pc[p] \in {"initialize_loadData", "initialize_saveData"}
       /\ \A p \in Callers :
             /\ (/\ call[p].op = "initialize" /\ pc[p] # "done"
                 /\ pc'[p] = "done" /\ result'[p].status = "ok") => initialized'
             /\ (pc[p] = "idle" /\ call'[p].op = "initialize" /\ initialized) =>
                   /\ pc'[p] = "done" /\ result'[p].status = "ok"
                   /\ UNCHANGED <<initialized, storage, dataVars>>]_vars

(* a second initialize() has returned with courses in memory *)
C18_Witness ==
    \E p \in Callers :
        /\ pc[p] = "done" /\ call[p].op = "initialize" /\ result[p].status = "ok"
        /\ calls >= 1 /\ courses # <<>>

(* C19: an initialize() call that found no record, or a corrupt one, completes
   normally with initialized set, both collections empty and the empty
   dataset stored *)
C19_InitializeNeverFails ==
    [][\A p \in Callers :
          (pc[p] = "initialize_saveData" /\ pc'[p] = "done") =>
              /\ result'[p].status = "ok" /\ initialized'
              /\ courses' = <<>> /\ students' = <<>>
              /\ storage' = [present |-> TRUE, corrupt |-> FALSE,
                             courses |-> <<>>, students |-> <<>>]]_vars

(* C20: when the save of a create, update or delete fails, the call fails
   with saveData's error, which is none of the validation, conflict and
   not-found errors, and the collections and objects stay as the mutation
   left them, the stored record as it was *)
C20_SaveFailureKeepsMemory ==
    [][\A p \in Callers :
          (/\ pc[p] \in {"createCourse_save", "deleteCourse_save", "createStudent_save",
                          "updateStudent_save", "deleteStudent_save",
                          "enrollStudent_saveStudent", "enrollStudent_saveCourse",
                          "unenrollStudent_saveCourse", "unenrollStudent_saveStudent",
                          "updateStudentProgress_save", "updateCourseProgress_save"}
           /\ pc'[p] = "done" /\ result'[p].status = "error") =>
              /\ result'[p].error = "Failed to save data"
              /\ result'[p].error \notin
                    {"Course validation failed", "Student validation failed",
                     "A course with this title already exists",
                     "A student with this email already exists",
                     "Cannot delete course with enrolled students",
                     "Student is already enrolled in a course. Please unenroll first.",
                     "Course not found", "Student not found",
                     "Selected course does not exist",
                     "Student is not enrolled in any course",
                     "Progress must be a number between 0 and 100"}
              /\ UNCHANGED <<dataVars, storage>>]_vars

(* a createCourse call has failed at its save: the course is in the
   collection and not in the stored record *)
C20_Witness ==
    \E p \in Callers :
        /\ pc[p] = "done" /\ call[p].op = "createCourse"
        /\ result[p].status = "error" /\ result[p].error = "Failed to save data"
        /\ local[p].course \in Range(courses)
        /\ \A i \in DOMAIN storage.courses : storage.courses[i].id # local[p].course

(* C21: DataService.createCourse, when a course of the collection has its
   title ignoring case, fails with the conflict error and leaves the
   collection and the objects as they were; otherwise, unless the Course
   constructor rejects the data, it appends exactly one course, with that
   title; so a course is only ever appended under a title no course has, and
   of two overlapping calls with the same title the one that comes to the
   check while the other's course is in the collection fails *)
C21_DuplicateTitleRejected ==
    [][\A p \in Callers :
          Resumes(p, "createCourse_delay")
          => LET taken == \E c \in Range(courses) :
                              EqualIgnoringCase(courseObj[c].title, call[p].data.title)
             IN /\ taken => /\ FailsWith(p, "A course with this title already exists")
                            /\ UNCHANGED dataVars
                /\ courses' # courses =>
                      /\ ~taken
                      /\ Len(courses') = Len(courses) + 1
                      /\ SubSeq(courses', 1, Len(courses)) = courses
                      /\ courseObj'[courses'[Len(courses')]].title = call[p].data.title
                /\ \A q \in Callers \ {p} :
                      (/\ call[q].op = "createCourse" /\ pc[q] = "createCourse_save"
                       /\ local[q].course \in Range(courses)
                       /\ EqualIgnoringCase(call[q].data.title, call[p].data.title))
                      => FailsWith(p, "A course with this title already exists")]_vars

(* a createCourse call has failed as a duplicate of the course that another
   call, still in flight, had appended under the same title in another case *)
C21_Witness ==
    \E p, q \in Callers :
        /\ pc[p] = "done" /\ call[p].op = "createCourse"
        /\ result[p].error = "A course with this title already exists"
        /\ pc[q] = "createCourse_save" /\ local[q].course \in Range(courses)
        /\ courseObj[local[q].course].title # call[p].data.title
        /\ EqualIgnoringCase(courseObj[local[q].course].title, call[p].data.title)

(* the names of the tests of an array, in its order *)
Names(ts) == [i \in DOMAIN ts |-> ts[i].name]

(* the runTests call of caller p was admitted: it did not find a run active *)
Admitted(p) == call[p].op = "runTests" /\ result[p].error # "Tests are already running"

(* the test whose function caller p's run is awaiting *)
Awaited(p) == testsToRun(p)[local[p].i]

(* C22: a runTests call that was admitted completes by returning, whatever
   the test functions did, and the results it returns have one entry for each
   test of its selection, in the selection's order *)
C22_RunNeverAborts ==
    \A p \in Callers :
        (pc[p] = "done" /\ Admitted(p)) =>
            /\ result[p].status = "ok"
            /\ Names(result[p].value.results) = Names(testsToRun(p))

(* C23: when the last attempt of a test ends because its function has not
   settled within the timeout, the result recorded for the test has status
   'fail' and error 'Test timeout'; when it ends because the function threw,
   status 'fail' and the thrown message; whatever the retry count *)
C23_TimeoutRecordedAsFailure ==
    [][\A p \in Callers :
          (/\ pc[p] = "runSingleTest_race"
           /\ pc'[p] \notin {"runSingleTest_race", "runSingleTest_delay"}
           /\ log'[Len(log) + 1].status = "rejected") =>
              /\ Len(results') > Len(results)
              /\ results'[Len(results) + 1].name = Awaited(p).name
              /\ results'[Len(results) + 1].status = "fail"
              /\ results'[Len(results) + 1].error =
                    IF Awaited(p).testFunction \in {"slow", "hangs"} THEN "Test timeout"
                    ELSE AssertionMessage]_vars

(* C24: an attempt is numbered at most the retry count (counting from 0); an
   attempt that passes is the last one and is recorded as 'pass' with its
   number; an attempt that fails before the last is followed by the 100 ms
   delay and the next attempt, with nothing recorded; the last attempt, when
   it fails, is followed by no delay and is recorded as 'fail' with its error
   message and its number *)
C24_RetriesThenLastOutcome ==
    [][\A p \in Callers :
          /\ (pc'[p] = "runSingleTest_race" /\ pc[p] # "runSingleTest_race") =>
                /\ local'[p].attempt <= testsToRun(p)'[local'[p].i].retries
                /\ pc[p] = "runSingleTest_delay" =>
                      local'[p].attempt = local[p].attempt + 1 /\ local'[p].i = local[p].i
          /\ (pc[p] = "runSingleTest_race" /\ pc'[p] # pc[p]) =>
                LET outcome == log'[Len(log) + 1]
                    recorded == results'[Len(results) + 1]
                IN IF outcome.status = "resolved"
                   THEN /\ pc'[p] # "runSingleTest_delay"
                        /\ Len(log') = Len(log) + 1 \/ log'[Len(log) + 2].event = "call"
                        /\ Len(results') > Len(results)
                        /\ recorded.name = Awaited(p).name /\ recorded.status = "pass"
                        /\ recorded.error = NoError /\ recorded.attempt = local[p].attempt + 1
                   ELSE IF local[p].attempt < Awaited(p).retries
                   THEN /\ pc'[p] = "runSingleTest_delay" /\ results' = results
                        /\ log'[Len(log) + 2] = [event |-> "delay", name |-> Awaited(p).name,
                                                  ms |-> 100]
                   ELSE /\ pc'[p] # "runSingleTest_delay"
                        /\ Len(log') = Len(log) + 1 \/ log'[Len(log) + 2].event = "call"
                        /\ Len(results') > Len(results)
                        /\ recorded.name = Awaited(p).name /\ recorded.status = "fail"
                        /\ recorded.error = outcome.error
                        /\ recorded.attempt = local[p].attempt + 1]_vars

(* the tests of the Map with the given category, in the Map's order *)
Tagged(category) == SelectSeq(tests, LAMBDA test : test.category = category)

(* C25: 'all' selects the registered tests, each name once, and a category
   selects the registered tests of that category, in registration order, also
   after a name has been registered again; a run that returns has recorded
   the results in the order of its selection; a test with the skip flag is
   recorded as 'skipped' with duration 0, and its function is not called *)
C25_SelectionInRegistrationOrder ==
    /\ \A i, j \in DOMAIN getTestsToRun("all") :
          i # j => getTestsToRun("all")[i].name # getTestsToRun("all")[j].name
    /\ \A category \in Categories : getTestsToRun(category) = Tagged(category)
    /\ \A p \in Callers :
          (pc[p] = "done" /\ Admitted(p) /\ result[p].status = "ok") =>
              LET ts == testsToRun(p)
                  rs == result[p].value.results
              IN /\ Names(rs) = Names(ts)
                 /\ \A i \in DOMAIN ts :
                       ts[i].skip =>
                          /\ rs[i].status = "skipped" /\ rs[i].duration = 0
                          /\ \A k \in DOMAIN log :
                                log[k].event = "call" => log[k].name # ts[i].name

(* the fields whose rule the course data / the student data violates, each
   field judged on its own *)
ViolatedCourseFields(data) ==
    { f \in {"title", "description", "duration", "instructor", "difficulty"} :
        CASE f = "title" -> falsy(data.title) \/ trim(data.title) = ""
                            \/ Len(data.title) < 3 \/ Len(data.title) > 100
          [] f = "description" -> falsy(data.description) \/ trim(data.description) = ""
                                  \/ Len(data.description) < 10 \/ Len(data.description) > 500
          [] f = "duration" -> ~validateField("number", data.duration,
                                              [min |-> 1, max |-> 1000, fieldName |-> ""]).isValid
          [] f = "instructor" -> ~validateField("name", data.instructor, NoOption).isValid
          [] f = "difficulty" -> ~validateField("difficulty", data.difficulty, NoOption).isValid }

ViolatedStudentFields(data) ==
    { f \in {"name", "email", "phone", "courseId"} :
        CASE f = "name" -> ~validateField("name", data.name, NoOption).isValid
          [] f = "email" -> ~validateField("email", data.email, NoOption).isValid
          [] f = "phone" -> ~validateField("phone", data.phone, NoOption).isValid
          [] f = "courseId" -> falsy(data.courseId) \/ trim(data.courseId) = "" }

(* C26: the error map that validateCourse / validateStudent returns has a key
   for exactly the fields whose rule the data violates, however many they
   are, and isValid is true exactly when the map is empty *)
C26_EveryViolatedFieldReported ==
    \A p \in Callers :
        (pc[p] = "done" /\ call[p].op \in {"validateCourse", "validateStudent"}) =>
            LET violated == IF call[p].op = "validateCourse"
                            THEN ViolatedCourseFields(call[p].data)
                            ELSE ViolatedStudentFields(call[p].data)
            IN /\ DOMAIN result[p].value.errors = violated
               /\ result[p].value.isValid <=> (DOMAIN result[p].value.errors = {})

(* validateCourse({}) has reported all five fields at once *)
C26_Witness ==
    \E p \in Callers :
        /\ pc[p] = "done" /\ call[p].op = "validateCourse"
        /\ \A f \in DOMAIN call[p].data : call[p].data[f] = Undefined
        /\ DOMAIN result[p].value.errors =
              {"title", "description", "duration", "instructor", "difficulty"}
        /\ ~result[p].value.isValid

(* C27: a step in which a manager's createCourse or createStudent call fails
   with a validation error changes neither the collections, nor the objects
   and their counts, nor the stored record; and when the repository finds a
   course or a student missing, a title or an email taken, or a course still
   referenced, the manager's caller gets exactly that error *)
C27_ValidationBeforeMutation ==
    [][\A p \in Callers :
          /\ (/\ call'[p].op \in {"createCourse", "createStudent"}
              /\ pc[p] # "done" /\ pc'[p] = "done"
              /\ result'[p].error \in {"Course validation failed", "Student validation failed"})
             => UNCHANGED <<dataVars, storage>>
          /\ (Resumes(p, "deleteCourse_delay") /\ call[p].id \notin Range(courses))
             => FailsWith(p, "Course not found")
          /\ (/\ Resumes(p, "deleteCourse_delay") /\ call[p].id \in Range(courses)
              /\ Referencing(call[p].id) # {})
             => FailsWith(p, "Cannot delete course with enrolled students")
          /\ (Resumes(p, "createCourse_delay") /\ existingCourse(call[p].data.title) # {})
             => FailsWith(p, "A course with this title already exists")
          /\ (Resumes(p, "createStudent_delay") /\ existingStudent(call[p].data.email) # {})
             => FailsWith(p, "A student with this email already exists")
          /\ (Resumes(p, "deleteStudent_delay") /\ call[p].id \notin Range(students))
             => FailsWith(p, "Student not found")]_vars

(* C28: of two operations issued back-to-back by the same caller, the second
   never completes while the first is still in progress *)
C28_CompletionInIssueOrder == ~(pc[2] = "done" /\ InFlight(1))

(* the multiplier of a difficulty level, in tenths *)
Multiplier(level) ==
    CASE level = "beginner" -> 10
      [] level = "intermediate" -> 13
      [] level = "advanced" -> 16

(* C29: every course's estimatedCompletionTime is its duration times the
   multiplier of its difficulty level (1.0, 1.3, 1.6), rounded to the hour *)
C29_EstimateFollowsDifficulty ==
    \A id \in CourseIds :
       courseObj[id] # NoObj =>
          LET c == courseObj[id]
          IN 100 * c.estimatedCompletionTime - 50 <= c.duration * Multiplier(toLowerCase(c.difficulty))
             /\ c.duration * Multiplier(toLowerCase(c.difficulty)) < 100 * c.estimatedCompletionTime + 50

(* the sum of enrollmentCount over the courses of the collection *)
RECURSIVE TotalEnrollment(_, _)
TotalEnrollment(cs, objs) ==
    IF cs = <<>> THEN 0 ELSE objs[Head(cs)].enrollmentCount + TotalEnrollment(Tail(cs), objs)

(* the calls of p and q are enrollStudent calls for the same student, both in
   progress, the student and the courses they name in the collections *)
EnrollTogether(p, q) ==
    /\ p # q /\ InFlight(p) /\ InFlight(q)
    /\ call[p].op = "enrollStudent" /\ call[q].op = "enrollStudent"
    /\ call[p].studentId = call[q].studentId
    /\ call[p].studentId \in Range(students)
    /\ {call[p].courseId, call[q].courseId} \subseteq Range(courses)

(* where an enrollStudent call is once the student has passed its checks *)
Enrolling == {"enrollStudent_updateStudent", "enrollStudent_saveStudent",
              "enrollStudent_updateCourse", "enrollStudent_saveCourse"}

(* C30: of two enrollStudent calls in flight together for one student, only
   one gets the student past the already-enrolled check and that one succeeds,
   the other fails as already enrolled, and the sum of enrollmentCount grows by
   1, in the step where the call that succeeds counts its student *)
C30_OneEnrollmentOfTwo ==
    [][\A p, q \in Callers :
          (EnrollTogether(p, q) /\ pc'[p] # pc[p]) =>
             /\ ~(pc[p] \in Enrolling /\ pc[q] \in Enrolling)
             /\ (pc[q] \in Enrolling /\ pc[p] = "enrollStudent_getStudent") =>
                   FailsWith(p, "Student is already enrolled in a course. Please unenroll first.")
             /\ (pc[p] \in Enrolling /\ pc'[p] = "done") => result'[p].status = "ok"
             /\ TotalEnrollment(courses', courseObj')
                   = TotalEnrollment(courses, courseObj)
                       + (IF pc[p] = "enrollStudent_saveStudent"
                             /\ pc'[p] = "enrollStudent_updateCourse" THEN 1 ELSE 0)]_vars

(* new is min(100, old + d) for some d in lo..hi, and no less than old *)
Simulated(old, new, lo, hi) ==
    /\ new >= old
    /\ \/ new <= 100 * Percent /\ new - old >= lo * Percent /\ new - old <= hi * Percent
       \/ new = 100 * Percent /\ old + hi * Percent >= 100 * Percent

AllInRange ==
    /\ \A c \in Range(courses) : ProgressInRange(courseObj[c].progress)
    /\ \A s \in Range(students) : ProgressInRange(studentObj[s].progress)

(* C31: the progress of every course and every student is within [0, 100];
   a step of CourseManager.simulateProgress that changes a course's progress
   sets it to min(100, old + d) with d in 5..25, a step of
   StudentManager.simulateProgress that changes a student's progress sets it
   to min(100, old + d) with d in 3..20, neither lowers a progress, and the
   student loop leaves every unenrolled student as it is *)
C31_ProgressWithinRange ==
    [][ /\ AllInRange'
        /\ \A p \in Callers :
             /\ call[p].op = "simulateProgress" =>
                  \A c \in Range(courses) :
                     courseObj'[c].progress # courseObj[c].progress =>
                        Simulated(courseObj[c].progress, courseObj'[c].progress, 5, 25)
             /\ call[p].op = "StudentManager.simulateProgress" =>
                  \A s \in Range(students) :
                     IF isEnrolled(studentObj[s])
                     THEN studentObj'[s].progress # studentObj[s].progress =>
                             Simulated(studentObj[s].progress, studentObj'[s].progress, 3, 20)
                     ELSE studentObj'[s] = studentObj[s] ]_vars

(* the properties of a and b outside `changeable` are equal *)
SameOutside(a, b, changeable) ==
    /\ DOMAIN a = DOMAIN b
    /\ \A key \in DOMAIN a \ changeable : a[key] = b[key]

(* C32: a step of DataService.updateStudent changes at most name, email,
   phone, updatedAt, initials and displayName of the student it names, and a
   step of DataService.updateCourse at most title, description, duration,
   instructor, difficulty, updatedAt, slug and estimatedCompletionTime of
   the course it names, whatever keys the update object carries; courseId,
   progress, completedLessons, enrollmentDate and enrollmentCount, and every
   other entity, stay as they are *)
C32_OnlyAllowedFieldsChange ==
    [][ \A p \in Callers :
          /\ call[p].op = "DataService.updateStudent" =>
               /\ courseObj' = courseObj
               /\ \A s \in StudentIds :
                    IF s = call[p].id /\ studentObj[s] # NoObj
                    THEN SameOutside(studentObj[s], studentObj'[s],
                                     allowedStudentUpdates \cup {"updatedAt", "initials", "displayName"})
                    ELSE studentObj'[s] = studentObj[s]
          /\ call[p].op = "DataService.updateCourse" =>
               /\ studentObj' = studentObj
               /\ \A c \in CourseIds :
                    IF c = call[p].id /\ courseObj[c] # NoObj
                    THEN SameOutside(courseObj[c], courseObj'[c],
                                     allowedCourseUpdates \cup {"updatedAt", "slug", "estimatedCompletionTime"})
                    ELSE courseObj'[c] = courseObj[c] ]_vars

(* an update object with disallowed keys was applied: the student's name or
   the course's duration changed *)
C32_Witness ==
    /\ pc[1] = "done" /\ result[1].status = "ok"
    /\ \/ /\ call[1].op = "DataService.updateStudent"
          /\ \E i \in DOMAIN call[1].updates : call[1].updates[i].key = "progress"
          /\ studentObj[call[1].id].name # call[1].before.name
       \/ /\ call[1].op = "DataService.updateCourse"
          /\ "enrollmentCount" \in DOMAIN call[1].updates
          /\ courseObj[call[1].id].duration # call[1].before.duration

(* C33: when a DataService.updateStudent or updateCourse call fails, the
   entity it names is as it was when the call was made *)
C33_FailedUpdateChangesNothing ==
    \A p \in Callers :
       pc[p] = "done" /\ result[p].status = "error" =>
          /\ call[p].op = "DataService.updateStudent" => studentObj[call[p].id] = call[p].before
          /\ call[p].op = "DataService.updateCourse" => courseObj[call[p].id] = call[p].before

(* C34: every course's enrollmentCount is a natural number *)
C34_EnrollmentCountNonNegative ==
    \A c \in CourseIds : courseObj[c] # NoObj => courseObj[c].enrollmentCount \in Nat

(* the only two calls made are unenrollStudent calls for the one student of a
   course whose count was 1, and both have run course.removeEnrollment *)
C34_Witness ==
    /\ storage = SeededData /\ calls = 2
    /\ \A p \in {1, 2} :
          /\ call[p] = [op |-> "unenrollStudent", studentId |-> 1]
          /\ pc[p] = "unenrollStudent_updateCourse"
          /\ local[p].course = 1
    /\ courseObj[1].enrollmentCount = 0

(* the step in which caller p's loadData replaces this.data with the stored
   record *)
Loads(p) ==
    /\ pc[p] = "ensureInitialized_loadData" /\ pc'[p] # pc[p]
    /\ storage.present /\ ~storage.corrupt

(* C35: the stored record is loaded into memory once, before `initialized`
   is set, and no load replaces the courses and students in memory once
   initialization has succeeded *)
C35_LoadedOnce ==
    [][ \A p \in Callers :
          Loads(p) =>
             /\ ~initialized
             /\ initialized => <<courses, students, courseObj, studentObj>>'
                                  = <<courses, students, courseObj, studentObj>> ]_vars

(* C36: a success event of a manager is emitted only in a step that has
   written the repository's objects, the mutation among them, to localStorage
   and has left no entry in that manager's cache, and the call that emits it
   does not fail in that step; a call that has failed has not emitted the
   success event of its own operation *)
SuccessEvents ==
    {"courseCreated", "courseUpdated", "courseDeleted", "courseProgressUpdated",
     "studentCreated", "studentUpdated", "studentDeleted", "studentEnrolled",
     "studentUnenrolled", "studentProgressUpdated"}

CourseEvents == {"courseCreated", "courseUpdated", "courseDeleted", "courseProgressUpdated"}

(* the objects a stored record holds for an id *)
StoredAs(records, id) == { records[i] : i \in { j \in DOMAIN records : records[j].id = id } }

(* the mutation the event of call c announces is in what localStorage holds *)
Persisted(event, c, l, stored) ==
    CASE event = "courseCreated" -> StoredAs(stored.courses, l.course) # {}
      [] event = "courseDeleted" -> StoredAs(stored.courses, c.id) = {}
      [] event = "courseUpdated" ->
           \A course \in StoredAs(stored.courses, c.id) :
              \A key \in DOMAIN c.updates \cap allowedCourseUpdates : course[key] = c.updates[key]
      [] event = "studentCreated" -> StoredAs(stored.students, l.student) # {}
      [] event = "studentDeleted" -> StoredAs(stored.students, c.id) = {}
      [] event = "studentUpdated" -> StoredAs(stored.students, c.id) # {}
      [] event = "studentEnrolled" ->
           \A student \in StoredAs(stored.students, c.studentId) : student.courseId = c.courseId
      [] event = "studentUnenrolled" ->
           \A student \in StoredAs(stored.students, c.studentId) : student.courseId = NULL
      [] OTHER -> TRUE

(* the success event of an operation *)
OwnSuccess(op) ==
    CASE op = "createCourse" -> "courseCreated"
      [] op = "updateCourse" -> "courseUpdated"
      [] op = "deleteCourse" -> "courseDeleted"
      [] op = "updateCourseProgress" -> "courseProgressUpdated"
      [] op = "createStudent" -> "studentCreated"
      [] op = "updateStudent" -> "studentUpdated"
      [] op = "deleteStudent" -> "studentDeleted"
      [] op = "enrollStudent" -> "studentEnrolled"
      [] op = "unenrollStudent" -> "studentUnenrolled"
      [] op = "updateStudentProgress" -> "studentProgressUpdated"
      [] op \in {"simulateProgress", "StudentManager.simulateProgress"} -> "progressSimulated"
      [] OTHER -> "none"

C36_SuccessEventAfterPersistAndClear ==
    [][ \A p \in Callers :
          LET emitted == SubSeq(notified'[p], Len(notified[p]) + 1, Len(notified'[p]))
          IN /\ \A r \in DOMAIN emitted :
                  LET event == emitted[r][1].event
                  IN event \in SuccessEvents =>
                        /\ storage' = Snapshot
                        /\ Persisted(event, call[p], local[p], storage')
                        /\ IF event \in CourseEvents
                           THEN \A k \in DOMAIN courseCache' : courseCache'[k] = NoEntry
                           ELSE \A k \in DOMAIN studentCache' : studentCache'[k] = NoEntry
                        /\ result'[p].status # "error"
             /\ (pc'[p] = "done" /\ result'[p].status = "error") =>
                  \A r \in DOMAIN notified'[p] :
                     notified'[p][r][1].event # OwnSuccess(call'[p].op) ]_vars

(* a listener has been told of the student that a call created, the first
   student call to be acknowledged, which found an entry in the manager's
   cache *)
C36_Witness ==
    \E p \in Callers :
        /\ pc[p] = "done" /\ result[p].status = "ok" /\ call[p].op = "createStudent"
        /\ acked.createdStudents = {local[p].student} /\ acked.deletedStudents = {}
        /\ "students" \in acked.evicted
        /\ \E r \in DOMAIN notified[p] : \E k \in DOMAIN notified[p][r] :
              /\ notified[p][r][k].event = "studentCreated"
              /\ observers[notified[p][r][k].observer] = "listener"

(* C37: at most one run is active at a time and isRunning is set exactly
   while one is; a runTests call made during a run fails with 'Tests are
   already running' and leaves the run's results, its flag and its position
   as they are; a runTests call made when no run is active, also after one
   that threw, is not turned away *)
ActiveRuns == { p \in Callers : pc[p] \in {"runSingleTest_race", "runSingleTest_delay"} }

AlreadyRunning(r) == r.status = "error" /\ r.error = "Tests are already running"

C37_OneRunAtATime ==
    [][ /\ Cardinality(ActiveRuns') <= 1
        /\ isRunning' <=> ActiveRuns' # {}
        /\ \A p \in Callers :
              pc[p] = "idle" /\ pc'[p] # "idle" /\ call'[p].op = "runTests" =>
                 IF ActiveRuns # {}
                 THEN /\ pc'[p] = "done" /\ AlreadyRunning(result'[p])
                      /\ <<results, isRunning, inProgress, log>>'
                            = <<results, isRunning, inProgress, log>>
                      /\ \A q \in ActiveRuns : <<pc[q], local[q]>>' = <<pc[q], local[q]>>
                 ELSE ~AlreadyRunning(result'[p]) ]_vars

(* a call was turned away while the other call's run, which was not the
   first call made and has a result recorded already, awaits a test *)
C37_Witness ==
    \E p, q \in Callers :
        /\ pc[p] = "done" /\ AlreadyRunning(result[p])
        /\ pc[q] = "runSingleTest_race" /\ results # <<>>
        /\ call[q].run > 1

(* C38: of the test functions a run has invoked at most one is in progress:
   the next test, or the next attempt, is not invoked before the previous
   invocation has settled *)
C38_OneTestInProgress ==
    \A first, second \in inProgress : first.run = second.run => first = second

(* C39: retryWithBackoff(fn, r, b) calls fn at most r + 1 times; every call
   but the first follows a rejected call and a wait of b * 2^k ms, k being the
   number of retries made before; the call returns, with its value, at the
   first call of fn that resolves, and no call of fn follows; it rejects only
   after r + 1 rejected calls of fn, with the error of the last *)
PowerOf2(k) == 2 ^ k

C39_RetryWithBackoff ==
    \A p \in Callers :
        call[p].op = "retryWithBackoff" =>
           LET n == Len(fnCalls)
               at(i) == log[i]
           IN /\ n <= call[p].retries + 1
              /\ \A i \in DOMAIN log :
                    /\ at(i).event = "call" /\ at(i).n > 1 =>
                          /\ at(i - 2) = [event |-> "rejected", n |-> at(i).n - 1]
                          /\ at(i - 1) = [event |-> "delay",
                                          ms |-> call[p].backoff * PowerOf2(at(i).n - 2)]
                    /\ at(i).event = "delay" => i < Len(log) \/ pc[p] = "retryWithBackoff_delay"
                    /\ at(i).event = "resolved" =>
                          /\ i = Len(log) /\ pc[p] = "done"
                          /\ result[p].status = "ok" /\ result[p].value = fnValue(at(i).n)
              /\ pc[p] = "done" /\ result[p].status = "ok" =>
                    log[Len(log)] = [event |-> "resolved", n |-> n]
              /\ pc[p] = "done" /\ result[p].status = "error" =>
                    /\ n = call[p].retries + 1
                    /\ log[Len(log)] = [event |-> "rejected", n |-> n]
                    /\ result[p].error = fnError(n)

(* the third call of fn resolved, after waits of 100 and 200 ms *)
C39_Witness ==
    \E p \in Callers :
        /\ call[p].op = "retryWithBackoff" /\ call[p].retries = 3 /\ call[p].backoff = 100
        /\ pc[p] = "done" /\ result[p].status = "ok" /\ result[p].value = fnValue(3)
        /\ SelectSeq(log, LAMBDA e : e.event = "delay")
              = <<[event |-> "delay", ms |-> 100], [event |-> "delay", ms |-> 200]>>

(* C40: the wrapped function runs only from the timer: every run comes right
   after a call, with no run in between, `wait` after that call and with its
   arguments; while the last call has not been followed by a run, exactly one
   timer is pending, it holds that call's arguments and is due `wait` after
   that call, however many calls came before it; with no call since the last
   run no timer is pending *)
C40_DebounceRunsOnceAfterLastCall ==
    \A p \in Callers :
        Debounced(p) =>
           LET pending == SelectSeq(timers.queue, LAMBDA timer : timer.caller = p)
           IN /\ \A i \in DOMAIN log :
                    log[i].event = "run" =>
                       /\ i > 1 /\ log[i - 1].event = "call"
                       /\ log[i].args = log[i - 1].args
                       /\ log[i].at = log[i - 1].at + call[p].wait
              /\ IF log # <<>> /\ log[Len(log)].event = "call"
                 THEN /\ Len(pending) = 1
                      /\ pending[1].args = log[Len(log)].args
                      /\ now + pending[1].after = log[Len(log)].at + call[p].wait
                 ELSE pending = <<>>

(* a burst of three calls, each made before the wait of the one before was
   over, then one run with the arguments of the third *)
C40_Witness ==
    \E p \in Callers :
        /\ Debounced(p) /\ Len(log) = 4
        /\ \A i \in 1..3 : log[i].event = "call"
        /\ log[1].at < log[2].at /\ log[2].at < log[3].at
        /\ log[1].args # log[3].args
        /\ log[4] = [event |-> "run", args |-> log[3].args, at |-> log[3].at + call[p].wait]

====
